---------------------------- MODULE Spec2Model ----------------------------
(***************************************************************************)
(* A model of libscratchcpp's bytecode virtual machine                     *)
(* (src/src/engine/virtualmachine.cpp) and of its engine / scheduler       *)
(* (src/src/engine/internal/engine.cpp).                                   *)
(*                                                                         *)
(* The specifications share the variables of this module:                  *)
(*   SpecVM         one VirtualMachine executing one script, one           *)
(*                  instruction per step, called again after every yield;  *)
(*   SpecEngine     the scheduler: step(), stepThreads(), the threads and  *)
(*                  the calls their scripts make;                          *)
(*   SpecHats       the calls of the host that start hats, with no step(); *)
(*   SpecBroadcast  broadcasts and backdrop changes of the host, on three  *)
(*                  targets and clones, with steps;                        *)
(*   SpecClones     initClone, deinitClone, deleteClones, setCloneLimit,   *)
(*                  start and stop called by the host;                     *)
(*   SpecLayers     the five layer functions, with clones;                 *)
(*   SpecStop       stop() called by a running script;                     *)
(*   SpecLoop       run() and runEventLoop() on one thread, stopEventLoop()*)
(*                  and the calls of the host on another;                  *)
(*   SpecStopLoop   the event loop and stopEventLoop() alone, with the     *)
(*                  fairness of the loop's thread;                         *)
(*   SpecKill       stopTarget() and stopScript() called by a running      *)
(*                  script and by the host;                                *)
(*   SpecKeys       setKeyState() on three key hats, with steps;           *)
(*   SpecFlow       one VirtualMachine on scripts with IF blocks,          *)
(*                  primitives that stop, procedures and lists;            *)
(*   SpecHostStop   stop() called by the host between steps;               *)
(*   SpecRestart    threads started and restarted after a script's stop(); *)
(*   SpecFunctions  functionIndex() and the function table;                *)
(*   SpecResolve    resolveIds() on the blocks of a loaded project;        *)
(*   SpecOnlyHats   threads started by hats only, with steps;              *)
(*   SpecCloneThreads  clones made and removed by the host, with steps;    *)
(*   SpecStopInLoop stop() called by a script in a step of the event loop; *)
(*   SpecLocks      the two mutexes of the event loop, lock by lock.       *)
(***************************************************************************)
EXTENDS Integers, Sequences, FiniteSets, TLC

(***************************************************************************)
(* Bounds of the model.                                                    *)
(***************************************************************************)
\* largest loop count / loop target of the scripts the VM is run on
MaxCount == 4
\* number of run() calls the caller of a VirtualMachine makes at most
MaxRuns == 7
\* number of VirtualMachine objects (threads) made at most under SpecEngine
MaxThreads == 3
\* number of clones created at most (SpecClones has its own bound)
MaxClones == 2
\* number of VirtualMachine objects (threads) made at most by the calls of the host
\* under SpecHats and SpecClones
MaxHatThreads == 6
\* number of VirtualMachine objects (threads) made at most under SpecBroadcast
MaxBroadcastThreads == 5
\* number of initClone calls made at most under SpecClones
MaxInitClones == 3
\* number of VirtualMachine objects (threads) made at most under SpecStop
MaxStopThreads == 4

(***************************************************************************)
(* Opcodes: the index of each handler in dispatch_table.                   *)
(***************************************************************************)
OP_START == 0
OP_HALT == 1
OP_CONST == 2
OP_IF == 4
OP_ELSE == 5
OP_ENDIF == 6
OP_FOREVER_LOOP == 7
OP_REPEAT_LOOP == 8
OP_UNTIL_LOOP == 9
OP_BEGIN_UNTIL_LOOP == 10
OP_LOOP_END == 11
OP_ADD == 13
OP_MULTIPLY == 15
OP_EQUALS == 32
OP_CHANGE_VAR == 37
OP_READ_VAR == 38
OP_LIST_APPEND == 40
OP_LIST_DEL == 41
OP_EXEC == 53
OP_INIT_PROCEDURE == 54
OP_CALL_PROCEDURE == 55
OP_ADD_ARG == 56
OP_READ_ARG == 57
OP_BREAK_ATOMIC == 58

\* instruction_arg_count[op]: the number of inline argument words of op
instruction_arg_count(op) ==
    IF op \in {OP_CONST, OP_CHANGE_VAR, OP_READ_VAR, OP_LIST_APPEND, OP_LIST_DEL, OP_EXEC,
               OP_CALL_PROCEDURE, OP_READ_ARG}
    THEN 1 ELSE 0

(***************************************************************************)
(* Values (class Value): a tagged scalar.                                  *)
(***************************************************************************)
Num(n) == [t |-> "num", v |-> n]
Bool(b) == [t |-> "bool", v |-> b]
Str(s) == [t |-> "str", v |-> s]

\* the strings of the model are no numbers: toLong() of them is 0
toLong(x) == IF x.t = "num" THEN x.v ELSE IF x.t = "str" THEN 0 ELSE IF x.v THEN 1 ELSE 0
isString(x) == x.t = "str"

\* the largest integer of the model, standing for the largest size_t (2^64 - 1):
\* no count, index or size of the model comes near either
SIZE_MAX == 2147483647

\* a long converted to size_t: a negative value wraps around
ToSizeT(n) == IF n < 0 THEN SIZE_MAX + (n + 1) ELSE n
toBool(x) == IF x.t = "bool" THEN x.v ELSE x.v # 0
ValueAdd(a, b) == Num(toLong(a) + toLong(b))
ValueMultiply(a, b) == Num(toLong(a) * toLong(b))
ValueEquals(a, b) == Bool(toLong(a) = toLong(b))

(***************************************************************************)
(* The scripts the VM is run on.  A script is named by its kind and one    *)
(* parameter n (a loop count, or the value an until loop waits for).       *)
(*   arith         CONST 3, CONST 4, ADD, CONST 2, MUL, HALT               *)
(*   repeat        REPEAT n { CHANGE_VAR v by 1 }                          *)
(*   break_repeat  BREAK_ATOMIC, REPEAT n { CHANGE_VAR v by 1 }            *)
(*   repeat_break  REPEAT n { CHANGE_VAR v by 1, BREAK_ATOMIC }            *)
(*   until         UNTIL (v == n) { CHANGE_VAR v by 1 }                    *)
(*   break_until   BREAK_ATOMIC, UNTIL (v == n) { CHANGE_VAR v by 1 }      *)
(*   until_break   UNTIL (v == n) { CHANGE_VAR v by 1, BREAK_ATOMIC }      *)
(*   forever       FOREVER { CHANGE_VAR v by 1, BREAK_ATOMIC }             *)
(* The scripts with branches, primitives, procedures and lists:            *)
(*   nested        REPEAT n { REPEAT 1 { CHANGE_VAR v by 1 }, CHANGE_VAR v   *)
(*                 by 1 }                                                  *)
(*   if_else       IF c { v += 1 } ELSE { v += 2 }                         *)
(*   if_then_if    IF c { IF d { v += 1 } ELSE { v += 2 }, v += 4 }        *)
(*                 ELSE { v += 8 }                                         *)
(*   if_else_if    IF c { v += 1 } ELSE { IF d { v += 2 }, v += 4 }        *)
(*   exec_loop     REPEAT 2 { EXEC 0, CHANGE_VAR v by 1 }                  *)
(*   break_exec    BREAK_ATOMIC, EXEC 1, EXEC 0, CHANGE_VAR v by 1         *)
(*   exec_proc     CALL p(1), v += 4;  p: CONST, EXEC 0, v += 1            *)
(*   proc_nested   CALL p(1, 8), v += 32;  p: v += arg 0, CALL q(arg 1),   *)
(*                 v += arg 0;  q: v += arg 0                              *)
(*   proc_rec      CALL r(n);  r: IF arg 0 { v += arg 0, CALL r(arg 0 - 1) }*)
(*                 v += arg 0                                              *)
(*   list          LIST_APPEND x, LIST_DEL index, on the list init         *)
(* EXEC 0 calls a primitive that calls stop() and returns 1 in exec_proc,  *)
(* 0 otherwise; EXEC 1 calls a primitive that returns 0 and does not stop. *)
(***************************************************************************)
ScriptKinds ==
    {"repeat", "break_repeat", "repeat_break", "until", "break_until", "until_break"}

Scripts ==
    {[kind |-> "arith", n |-> 0], [kind |-> "forever", n |-> 0]}
        \cup {[kind |-> k, n |-> c] : k \in ScriptKinds, c \in 0..MaxCount}

\* the negative loop counts
NegCounts == {-2, -1}

IfKinds == {"if_else", "if_then_if", "if_else_if"}
ExecKinds == {"exec_loop", "break_exec", "exec_proc"}

IfScripts ==
    {[kind |-> "if_else", n |-> 0, c |-> c, d |-> FALSE] : c \in BOOLEAN}
        \cup {[kind |-> k, n |-> 0, c |-> c, d |-> d] :
                    k \in {"if_then_if", "if_else_if"}, c \in BOOLEAN, d \in BOOLEAN}

\* the largest list the list script begins with
MaxListLen == 2

\* the values of the list items, and the index values of LIST_DEL
ListValues == {Num(1), Str("last")}
ListIndexes ==
    {Str("last"), Str("all"), Str("random"), Str("1")}
        \cup {Num(k) : k \in -1..(MaxListLen + 2)}

ListScripts ==
    {[kind |-> "list", n |-> 0, x |-> x, index |-> index, init |-> init] :
        x \in ListValues, index \in ListIndexes,
        init \in UNION {[1..len -> ListValues] : len \in 0..MaxListLen}}

\* the scripts of SpecFlow
FlowScripts ==
    {[kind |-> "repeat", n |-> c] : c \in NegCounts \cup {0, 1}}
        \cup {[kind |-> "nested", n |-> c] : c \in 0..2}
        \cup IfScripts
        \cup {[kind |-> k, n |-> 2] : k \in ExecKinds}
        \cup {[kind |-> "proc_nested", n |-> 0]}
        \cup {[kind |-> "proc_rec", n |-> c] : c \in 0..2}
        \cup ListScripts

Change(const) == <<OP_CONST, const, OP_CHANGE_VAR, 0>>

RepeatBody == <<OP_CONST, 1, OP_CHANGE_VAR, 0>>
UntilCond == <<OP_READ_VAR, 0, OP_CONST, 0, OP_EQUALS, OP_BEGIN_UNTIL_LOOP>>

Bytecode(s) ==
    CASE s.kind = "arith" ->
            <<OP_START, OP_CONST, 0, OP_CONST, 1, OP_ADD, OP_CONST, 2, OP_MULTIPLY, OP_HALT>>
      [] s.kind = "repeat" ->
            <<OP_START, OP_CONST, 0, OP_REPEAT_LOOP>> \o RepeatBody \o <<OP_LOOP_END, OP_HALT>>
      [] s.kind = "break_repeat" ->
            <<OP_START, OP_BREAK_ATOMIC, OP_CONST, 0, OP_REPEAT_LOOP>> \o RepeatBody
                \o <<OP_LOOP_END, OP_HALT>>
      [] s.kind = "repeat_break" ->
            <<OP_START, OP_CONST, 0, OP_REPEAT_LOOP>> \o RepeatBody
                \o <<OP_BREAK_ATOMIC, OP_LOOP_END, OP_HALT>>
      [] s.kind = "until" ->
            <<OP_START, OP_UNTIL_LOOP>> \o UntilCond \o RepeatBody \o <<OP_LOOP_END, OP_HALT>>
      [] s.kind = "break_until" ->
            <<OP_START, OP_BREAK_ATOMIC, OP_UNTIL_LOOP>> \o UntilCond \o RepeatBody
                \o <<OP_LOOP_END, OP_HALT>>
      [] s.kind = "until_break" ->
            <<OP_START, OP_UNTIL_LOOP>> \o UntilCond \o RepeatBody
                \o <<OP_BREAK_ATOMIC, OP_LOOP_END, OP_HALT>>
      [] s.kind = "forever" ->
            <<OP_START, OP_FOREVER_LOOP>> \o RepeatBody
                \o <<OP_BREAK_ATOMIC, OP_LOOP_END, OP_HALT>>
      [] s.kind = "nested" ->
            <<OP_START, OP_CONST, 0, OP_REPEAT_LOOP, OP_CONST, 1, OP_REPEAT_LOOP>>
                \o RepeatBody \o <<OP_LOOP_END>> \o RepeatBody \o <<OP_LOOP_END, OP_HALT>>
      [] s.kind = "if_else" ->
            <<OP_START, OP_CONST, 0, OP_IF>> \o Change(2) \o <<OP_ELSE>> \o Change(3)
                \o <<OP_ENDIF, OP_HALT>>
      [] s.kind = "if_then_if" ->
            <<OP_START, OP_CONST, 0, OP_IF, OP_CONST, 1, OP_IF>> \o Change(2)
                \o <<OP_ELSE>> \o Change(3) \o <<OP_ENDIF>> \o Change(4)
                \o <<OP_ELSE>> \o Change(5) \o <<OP_ENDIF, OP_HALT>>
      [] s.kind = "if_else_if" ->
            <<OP_START, OP_CONST, 0, OP_IF>> \o Change(2)
                \o <<OP_ELSE, OP_CONST, 1, OP_IF>> \o Change(3) \o <<OP_ENDIF>>
                \o Change(4) \o <<OP_ENDIF, OP_HALT>>
      [] s.kind = "exec_loop" ->
            <<OP_START, OP_CONST, 0, OP_REPEAT_LOOP, OP_EXEC, 0>> \o RepeatBody
                \o <<OP_LOOP_END, OP_HALT>>
      [] s.kind = "break_exec" ->
            <<OP_START, OP_BREAK_ATOMIC, OP_EXEC, 1, OP_EXEC, 0>> \o RepeatBody
                \o <<OP_HALT>>
      [] s.kind = "exec_proc" ->
            <<OP_START, OP_INIT_PROCEDURE, OP_CONST, 1, OP_ADD_ARG, OP_CALL_PROCEDURE, 0>>
                \o Change(4) \o <<OP_HALT>>
                \o <<OP_START, OP_CONST, 1, OP_EXEC, 0>> \o Change(2) \o <<OP_HALT>>
      [] s.kind = "proc_nested" ->
            <<OP_START, OP_INIT_PROCEDURE, OP_CONST, 0, OP_ADD_ARG, OP_CONST, 1, OP_ADD_ARG,
              OP_CALL_PROCEDURE, 0>> \o Change(2) \o <<OP_HALT>>
                \o <<OP_START, OP_READ_ARG, 0, OP_CHANGE_VAR, 0, OP_INIT_PROCEDURE,
                      OP_READ_ARG, 1, OP_ADD_ARG, OP_CALL_PROCEDURE, 1, OP_READ_ARG, 0,
                      OP_CHANGE_VAR, 0, OP_HALT>>
                \o <<OP_START, OP_READ_ARG, 0, OP_CHANGE_VAR, 0, OP_HALT>>
      [] s.kind = "proc_rec" ->
            <<OP_START, OP_INIT_PROCEDURE, OP_CONST, 0, OP_ADD_ARG, OP_CALL_PROCEDURE, 0,
              OP_HALT>>
                \o <<OP_START, OP_READ_ARG, 0, OP_IF, OP_READ_ARG, 0, OP_CHANGE_VAR, 0,
                      OP_INIT_PROCEDURE, OP_READ_ARG, 0, OP_CONST, 1, OP_ADD, OP_ADD_ARG,
                      OP_CALL_PROCEDURE, 0, OP_ENDIF, OP_READ_ARG, 0, OP_CHANGE_VAR, 0,
                      OP_HALT>>
      [] s.kind = "list" ->
            <<OP_START, OP_CONST, 0, OP_LIST_APPEND, 0, OP_CONST, 1, OP_LIST_DEL, 0, OP_HALT>>

\* m_procedures: where the code of each procedure begins, indexed from 0
Procedures(s) ==
    CASE s.kind = "exec_proc" -> <<13>>
      [] s.kind = "proc_nested" -> <<16, 32>>
      [] s.kind = "proc_rec" -> <<9>>
      [] OTHER -> <<>>

\* m_functions: the primitives EXEC calls, indexed from 0; a primitive returns the
\* number of registers to free and may call stop()
Functions(s) ==
    <<[frees |-> IF s.kind = "exec_proc" THEN 1 ELSE 0, stop |-> TRUE],
      [frees |-> 0, stop |-> FALSE]>>

\* the constant pool of the script (m_constValues), indexed from 0
ConstValues(s) ==
    CASE s.kind = "arith" -> <<Num(3), Num(4), Num(2)>>
      [] s.kind \in IfKinds -> <<Bool(s.c), Bool(s.d), Num(1), Num(2), Num(4), Num(8)>>
      [] s.kind = "exec_proc" -> <<Num(0), Num(1), Num(1), Num(0), Num(4)>>
      [] s.kind = "proc_nested" -> <<Num(1), Num(8), Num(32)>>
      [] s.kind = "proc_rec" -> <<Num(s.n), Num(-1)>>
      [] s.kind = "list" -> <<s.x, s.index>>
      [] OTHER -> <<Num(s.n), Num(1)>>

VARIABLES
    script,         \* the script the VirtualMachine was created for
    pos,            \* the local pos of the outermost unfinished run(pos)
    regs,           \* m_regs[0 .. m_regCount-1]
    loops,          \* m_loops
    callTree,       \* m_callTree
    atEnd,          \* m_atEnd
    atomic,         \* m_atomic
    variables,      \* *m_variables[i]
    runStack,       \* the callers of nested run() invocations, innermost last
    vmpc,           \* "ready": no run() in progress; "dispatch": inside run()
    savedPos,       \* what the last run() returned to the VM's caller
    runs,           \* history: run() calls made by the VM's caller
    yields,         \* history: breakFrame() calls
    conds           \* history: evaluations of an until loop's condition

vmVars ==
    <<script, pos, regs, loops, callTree, atEnd, atomic, variables, runStack, vmpc,
      savedPos, runs, yields, conds>>

VARIABLES
    hatScripts,         \* m_scripts and the hat maps: the hat scripts in registration order
    executableTargets,  \* m_executableTargets
    clones,             \* m_clones
    cloneLimit,         \* m_cloneLimit
    nextClone,          \* the number of the next clone to be created
    threads,            \* m_threads: the VirtualMachine each slot points to
    threadsToStop,      \* m_threadsToStop
    vms,                \* the VirtualMachine objects: target(), script(), atEnd() and
                        \* the flag kill() sets
    activeThread,       \* m_activeThread (0: nullptr)
    redrawRequested,    \* m_redrawRequested
    turboModeEnabled,   \* m_turboModeEnabled
    redrawHandler,      \* whether m_redrawHandler holds a function
    running,            \* m_running
    fps,                \* m_fps
    frameDuration,      \* m_frameDuration, in milliseconds
    keyMap,             \* m_keyMap
    elapsed,            \* the clock: milliseconds since stepStart
    numActiveThreads,   \* stepThreads' local numActiveThreads
    i,                  \* stepThreads' local i
    pc,                 \* where the event-loop thread is: "idle" outside step(),
                        \* "while", "for", "running" (inside thread->run()), "draw"
    hist,               \* history, per thread: born in the pass in progress, in a slot
                        \* after the running thread's, run in the pass it was born in
    draws,              \* history: calls of the redraw handler in this step
    passAfterRedraw     \* history: a pass began after a redraw request of this step

engVars ==
    <<hatScripts, executableTargets, clones, cloneLimit, nextClone, threads, threadsToStop,
      vms, activeThread, redrawRequested, turboModeEnabled, redrawHandler, running, fps,
      frameDuration, keyMap, elapsed, numActiveThreads, i, pc, hist, draws,
      passAfterRedraw>>

VARIABLES
    layerOrder,         \* layerOrder() of every target
    stopSlot,           \* history: the slot of the thread that called stop() last (0: none)
    ranSince,           \* history: the threads run since that call of stop()
    frontBackFront      \* history: how far the calls moveSpriteToFront(s),
                        \* moveSpriteToBack(s), moveSpriteToFront(s) have come

VARIABLES
    loop,               \* where the thread that called run() or runEventLoop() is:
                        \* "none" (no call yet), "start", "enter", "tick", "step",
                        \* "threads", "flag", "sleep", "finalize", "finalize2",
                        \* "returned", "crashed"; lock by lock also "flagLocked"
                        \* and "time"; "blocked" in a lock() that never returns
    untilProjectStops,  \* eventLoop's parameter: TRUE in run()
    m_stopEventLoop,    \* m_stopEventLoop
    eventLoopMutex,     \* the holder of m_eventLoopMutex: "free" or "loop"
    hostCall,           \* the call a second host thread is in: "none", "setKeyState",
                        \* "broadcast"
    raced,              \* history: the event loop held the mutex during that call
    stopCalled,         \* history: stopEventLoop() was called after run() or
                        \* runEventLoop() was invoked
    stepsSinceStop      \* history: the steps begun since that call (at most 2 counted)

loopVars ==
    <<loop, untilProjectStops, m_stopEventLoop, eventLoopMutex, hostCall, raced,
      stopCalled, stepsSinceStop>>

\* variables of the VirtualMachine that only the scripts of SpecFlow use
VARIABLES
    lists,              \* *m_lists[i]: the items of each list
    procedureArgTree,   \* m_procedureArgTree
    procedureArgs,      \* m_procedureArgs: the frame of m_procedureArgTree it points to,
                        \* counted from 1 (0: nullptr)
    nextProcedureArgs   \* m_nextProcedureArgs, likewise

callVars == <<lists, procedureArgTree, procedureArgs, nextProcedureArgs>>

\* the function table and the blocks of the loaded project, and the second mutex
VARIABLES
    m_functions,        \* m_functions
    firstIndex,         \* history: the index functionIndex returned first, per function
    lastCall,           \* history: the last call of functionIndex and what it returned
    blocks,             \* the blocks of the targets, with the IDs they refer to and,
                        \* after resolveIds(), the entities they point to
    idsResolved,        \* resolveIds() has run
    stopEventLoopMutex  \* the holder of m_stopEventLoopMutex: "free", "loop", "host"

projectVars == <<m_functions, firstIndex, lastCall, blocks, idsResolved>>

restVars == <<projectVars, stopEventLoopMutex>>

extVars ==
    <<layerOrder, stopSlot, ranSince, frontBackFront, loopVars, callVars, restVars>>

vars == <<vmVars, engVars, extVars>>

(***************************************************************************)
(* Registers: ADD_RET_VALUE, FREE_REGS, READ_REG, READ_LAST_REG.           *)
(***************************************************************************)
m_regCount == Len(regs)
ADD_RET_VALUE(rg, value) == Append(rg, value)
FREE_REGS(rg, count) == SubSeq(rg, 1, Len(rg) - count)
READ_REG(rg, index, count) == rg[Len(rg) - count + index + 1]
READ_LAST_REG(rg) == rg[Len(rg)]
REPLACE_RET_VALUE(rg, value, offset) == [rg EXCEPT ![Len(rg) - offset + 1] = value]

m_bytecode == Bytecode(script)
\* the opcode DISPATCH() jumps to: *++pos
NextOp == m_bytecode[pos + 1]

\* while (*p != OP_x) p += instruction_arg_count[*p++];
RECURSIVE ScanTo(_, _, _)
ScanTo(code, p, stops) ==
    IF code[p] \in stops THEN p
    ELSE ScanTo(code, p + 1 + instruction_arg_count(code[p]), stops)

(***************************************************************************)
(* run(pos) returning p with registers rg and loops lp.  The outermost     *)
(* run() returns to the VM's caller, which keeps p for its next call; a    *)
(* nested run() returns into do_until_loop or do_loop_end, which goes on   *)
(* with the condition the nested run left in the last register.            *)
(***************************************************************************)
Return(p, rg, lp) ==
    IF runStack = <<>>
    THEN /\ vmpc' = "ready"
         /\ savedPos' = p
         /\ pos' = p
         /\ regs' = rg
         /\ loops' = lp
         /\ UNCHANGED <<runStack, conds>>
    ELSE LET f == runStack[Len(runStack)]
             cond == toBool(READ_LAST_REG(rg))
         IN /\ runStack' = SubSeq(runStack, 1, Len(runStack) - 1)
            /\ conds' = conds + 1
            /\ regs' = FREE_REGS(rg, 1)
            /\ UNCHANGED <<vmpc, savedPos>>
            /\ IF f.from = "do_until_loop"
               THEN IF ~cond
                    THEN /\ loops' = Append(lp, [isRepeatLoop |-> FALSE, start |-> f.pos,
                                                  index |-> 0, max |-> 0])
                         /\ pos' = p
                    ELSE /\ loops' = lp
                         /\ pos' = ScanTo(m_bytecode, p, {OP_LOOP_END})
               ELSE IF ~cond
                    THEN /\ loops' = lp
                         /\ pos' = p
                    ELSE /\ loops' = SubSeq(lp, 1, Len(lp) - 1)
                         /\ pos' = f.pos

\* a run() that keeps m_atomic from the previous invocation
RunHead_KeepsAtomic(p) ==
    /\ pos' = p
    /\ atEnd' = FALSE
    /\ atomic' = atomic

\* the head of run(pos): m_atEnd = false; m_atomic = true; DISPATCH()
RunHead(p) ==
    /\ pos' = p
    /\ atEnd' = FALSE
    /\ atomic' = TRUE

(***************************************************************************)
(* The VM's caller calls run() on a thread that is not at its end; the     *)
(* first call starts at m_bytecode, a later one where the last returned.   *)
(***************************************************************************)
ThreadRun ==
    /\ UNCHANGED <<engVars, extVars>>
    /\ vmpc = "ready"
    /\ ~atEnd
    /\ runs < MaxRuns
    /\ RunHead(savedPos)
    /\ vmpc' = "dispatch"
    /\ runs' = runs + 1
    /\ UNCHANGED <<script, regs, loops, callTree, variables, runStack, savedPos, yields, conds>>

\* a HALT that returns without setting m_atEnd
do_halt_NoAtEnd ==
    /\ UNCHANGED <<engVars, extVars>>
    /\ vmpc = "dispatch"
    /\ NextOp = OP_HALT
    /\ callTree = <<>>
    /\ atEnd' = atEnd
    /\ Return(pos + 1, regs, loops)
    /\ UNCHANGED <<script, callTree, atomic, variables, runs, yields>>

\* m_procedureArgs after a frame was popped, with every frame lost
ArgsAfterReturn_Null(tree) == 0

\* m_procedureArgs after a frame was popped: the last frame left, or nullptr
ArgsAfterReturn(tree) == IF tree = <<>> THEN 0 ELSE Len(tree)

\* a return that leaves the argument frame of the call on the stack
pop_back_Nothing(tree) == tree

\* m_procedureArgTree.pop_back()
pop_back(tree) == SubSeq(tree, 1, Len(tree) - 1)

\* with an empty call tree the script ends; otherwise the procedure returns to the
\* position its call pushed and the argument frame of the call is dropped
do_halt ==
    /\ UNCHANGED <<engVars, layerOrder, stopSlot, ranSince, frontBackFront,
                   restVars, loopVars, lists,
                   nextProcedureArgs>>
    /\ vmpc = "dispatch"
    /\ NextOp = OP_HALT
    /\ IF callTree = <<>>
       THEN /\ atEnd' = TRUE
            /\ Return(pos + 1, regs, loops)
            /\ UNCHANGED <<callTree, procedureArgTree, procedureArgs>>
       ELSE /\ pos' = callTree[Len(callTree)]
            /\ callTree' = SubSeq(callTree, 1, Len(callTree) - 1)
            /\ procedureArgTree' = pop_back(procedureArgTree)
            /\ procedureArgs' = ArgsAfterReturn(procedureArgTree')
            /\ UNCHANGED <<regs, loops, atEnd, runStack, vmpc, savedPos, conds>>
    /\ UNCHANGED <<script, atomic, variables, runs, yields>>

do_const ==
    /\ UNCHANGED <<engVars, extVars>>
    /\ vmpc = "dispatch"
    /\ NextOp = OP_CONST
    /\ regs' = ADD_RET_VALUE(regs, ConstValues(script)[m_bytecode[pos + 2] + 1])
    /\ pos' = pos + 2
    /\ UNCHANGED <<script, loops, callTree, atEnd, atomic, variables, runStack, vmpc,
                   savedPos, runs, yields, conds>>

do_forever_loop ==
    /\ UNCHANGED <<engVars, extVars>>
    /\ vmpc = "dispatch"
    /\ NextOp = OP_FOREVER_LOOP
    /\ loops' = Append(loops, [isRepeatLoop |-> TRUE, start |-> pos + 1, index |-> -1, max |-> 0])
    /\ pos' = pos + 1
    /\ UNCHANGED <<script, regs, callTree, atEnd, atomic, variables, runStack, vmpc,
                   savedPos, runs, yields, conds>>

do_repeat_loop ==
    /\ UNCHANGED <<engVars, extVars>>
    /\ vmpc = "dispatch"
    /\ NextOp = OP_REPEAT_LOOP
    /\ LET loopCount == toLong(READ_LAST_REG(regs))
       IN IF ToSizeT(loopCount) <= 0
          THEN /\ pos' = ScanTo(m_bytecode, pos + 1, {OP_LOOP_END})
               /\ loops' = loops
          ELSE /\ loops' = Append(loops, [isRepeatLoop |-> TRUE, start |-> pos + 1,
                                          index |-> 0, max |-> ToSizeT(loopCount)])
               /\ pos' = pos + 1
    /\ regs' = FREE_REGS(regs, 1)
    /\ UNCHANGED <<script, callTree, atEnd, atomic, variables, runStack, vmpc, savedPos,
                   runs, yields, conds>>

\* loopStart = run(pos): the nested run() resets m_atEnd and m_atomic
do_until_loop ==
    /\ UNCHANGED <<engVars, extVars>>
    /\ vmpc = "dispatch"
    /\ NextOp = OP_UNTIL_LOOP
    /\ runStack' = Append(runStack, [from |-> "do_until_loop", pos |-> pos + 1])
    /\ RunHead(pos + 1)
    /\ UNCHANGED <<script, regs, loops, callTree, variables, vmpc, savedPos, runs, yields,
                   conds>>

do_begin_until_loop ==
    /\ UNCHANGED <<engVars, extVars>>
    /\ vmpc = "dispatch"
    /\ NextOp = OP_BEGIN_UNTIL_LOOP
    /\ Return(pos + 1, regs, loops)
    /\ UNCHANGED <<script, callTree, atEnd, atomic, variables, runs, yields>>

\* a loop test that is off by one: ++l.index <= l.max
LoopAgain_OffByOne(l) == (l.index = -1) \/ (l.index + 1 <= l.max)

\* (l.index == -1) || (++l.index < l.max)
LoopAgain(l) == (l.index = -1) \/ (l.index + 1 < l.max)

\* ++l.index, which the forever loop (index == -1) never reaches
LoopStep(l) == IF l.index = -1 THEN l ELSE [l EXCEPT !.index = l.index + 1]

\* a LOOP_END that never yields
IfNotAtomic_Never(yield, other) == other

\* what LOOP_END does while the script is not atomic; `other` otherwise
IfNotAtomic(yield, other) == IF ~atomic THEN yield ELSE other

do_loop_end ==
    /\ UNCHANGED <<engVars, extVars>>
    /\ vmpc = "dispatch"
    /\ NextOp = OP_LOOP_END
    /\ LET l == loops[Len(loops)]
           here == pos + 1
       IN IF l.isRepeatLoop
          THEN LET again == LoopAgain(l)
                   lp == IF again
                         THEN [loops EXCEPT ![Len(loops)] = LoopStep(l)]
                         ELSE SubSeq(loops, 1, Len(loops) - 1)
                   p == IF again THEN l.start ELSE here
               IN IfNotAtomic(
                      /\ yields' = yields + 1
                      /\ Return(p, regs, lp)
                      /\ UNCHANGED <<atEnd, atomic>>,
                      /\ pos' = p
                      /\ loops' = lp
                      /\ UNCHANGED <<regs, atEnd, atomic, runStack, vmpc, savedPos, yields, conds>>)
          ELSE IfNotAtomic(
                      /\ yields' = yields + 1
                      /\ Return(here - 1, regs, loops)
                      /\ UNCHANGED <<atEnd, atomic>>,
                      /\ runStack' = Append(runStack, [from |-> "do_loop_end", pos |-> here])
                      /\ RunHead(l.start)
                      /\ UNCHANGED <<regs, loops, vmpc, savedPos, yields, conds>>)
    /\ UNCHANGED <<script, callTree, variables, runs>>

do_add ==
    /\ UNCHANGED <<engVars, extVars>>
    /\ vmpc = "dispatch"
    /\ NextOp = OP_ADD
    /\ regs' = FREE_REGS(REPLACE_RET_VALUE(regs,
                   ValueAdd(READ_REG(regs, 0, 2), READ_REG(regs, 1, 2)), 2), 1)
    /\ pos' = pos + 1
    /\ UNCHANGED <<script, loops, callTree, atEnd, atomic, variables, runStack, vmpc,
                   savedPos, runs, yields, conds>>

do_multiply ==
    /\ UNCHANGED <<engVars, extVars>>
    /\ vmpc = "dispatch"
    /\ NextOp = OP_MULTIPLY
    /\ regs' = FREE_REGS(REPLACE_RET_VALUE(regs,
                   ValueMultiply(READ_REG(regs, 0, 2), READ_REG(regs, 1, 2)), 2), 1)
    /\ pos' = pos + 1
    /\ UNCHANGED <<script, loops, callTree, atEnd, atomic, variables, runStack, vmpc,
                   savedPos, runs, yields, conds>>

do_equals ==
    /\ UNCHANGED <<engVars, extVars>>
    /\ vmpc = "dispatch"
    /\ NextOp = OP_EQUALS
    /\ regs' = FREE_REGS(REPLACE_RET_VALUE(regs,
                   ValueEquals(READ_REG(regs, 0, 2), READ_REG(regs, 1, 2)), 2), 1)
    /\ pos' = pos + 1
    /\ UNCHANGED <<script, loops, callTree, atEnd, atomic, variables, runStack, vmpc,
                   savedPos, runs, yields, conds>>

do_read_var ==
    /\ UNCHANGED <<engVars, extVars>>
    /\ vmpc = "dispatch"
    /\ NextOp = OP_READ_VAR
    /\ regs' = ADD_RET_VALUE(regs, variables[m_bytecode[pos + 2] + 1])
    /\ pos' = pos + 2
    /\ UNCHANGED <<script, loops, callTree, atEnd, atomic, variables, runStack, vmpc,
                   savedPos, runs, yields, conds>>

do_change_var ==
    /\ UNCHANGED <<engVars, extVars>>
    /\ vmpc = "dispatch"
    /\ NextOp = OP_CHANGE_VAR
    /\ LET var == m_bytecode[pos + 2] + 1
       IN variables' = [variables EXCEPT ![var] = ValueAdd(variables[var], READ_LAST_REG(regs))]
    /\ regs' = FREE_REGS(regs, 1)
    /\ pos' = pos + 2
    /\ UNCHANGED <<script, loops, callTree, atEnd, atomic, runStack, vmpc, savedPos, runs,
                   yields, conds>>

do_break_atomic ==
    /\ UNCHANGED <<engVars, extVars>>
    /\ vmpc = "dispatch"
    /\ NextOp = OP_BREAK_ATOMIC
    /\ atomic' = FALSE
    /\ pos' = pos + 1
    /\ UNCHANGED <<script, regs, loops, callTree, atEnd, variables, runStack, vmpc,
                   savedPos, runs, yields, conds>>

(***************************************************************************)
(* Branches.  IF with a false condition in the last register scans to the  *)
(* first ELSE or ENDIF that follows it; ELSE, reached at the end of the    *)
(* true branch, scans to the first ENDIF that follows it.                  *)
(***************************************************************************)
do_if ==
    /\ UNCHANGED <<engVars, extVars>>
    /\ vmpc = "dispatch"
    /\ NextOp = OP_IF
    /\ pos' = IF ~toBool(READ_LAST_REG(regs))
              THEN ScanTo(m_bytecode, pos + 1, {OP_ELSE, OP_ENDIF})
              ELSE pos + 1
    /\ regs' = FREE_REGS(regs, 1)
    /\ UNCHANGED <<script, loops, callTree, atEnd, atomic, variables, runStack, vmpc,
                   savedPos, runs, yields, conds>>

do_else ==
    /\ UNCHANGED <<engVars, extVars>>
    /\ vmpc = "dispatch"
    /\ NextOp = OP_ELSE
    /\ pos' = ScanTo(m_bytecode, pos + 1, {OP_ENDIF})
    /\ UNCHANGED <<script, regs, loops, callTree, atEnd, atomic, variables, runStack, vmpc,
                   savedPos, runs, yields, conds>>

do_endif ==
    /\ UNCHANGED <<engVars, extVars>>
    /\ vmpc = "dispatch"
    /\ NextOp = OP_ENDIF
    /\ pos' = pos + 1
    /\ UNCHANGED <<script, regs, loops, callTree, atEnd, atomic, variables, runStack, vmpc,
                   savedPos, runs, yields, conds>>

(***************************************************************************)
(* LOOP_END with no loop on m_loops reads m_loops.back() of an empty       *)
(* vector, which is undefined: the VM crashes, or goes on after the        *)
(* LOOP_END.                                                               *)
(***************************************************************************)
do_loop_end_empty ==
    /\ UNCHANGED <<engVars, extVars>>
    /\ vmpc = "dispatch"
    /\ NextOp = OP_LOOP_END
    /\ loops = <<>>
    /\ \E outcome \in {"crashed", "continues"} :
            IF outcome = "crashed"
            THEN /\ vmpc' = "crashed"
                 /\ pos' = pos
            ELSE /\ pos' = pos + 1
                 /\ vmpc' = vmpc
    /\ UNCHANGED <<script, regs, loops, callTree, atEnd, atomic, variables, runStack,
                   savedPos, runs, yields, conds>>

(***************************************************************************)
(* EXEC calls a primitive and frees the registers it asks for.  If the     *)
(* primitive called stop(), run() returns at once: the call tree and the   *)
(* argument frames are cleared; m_loops and the registers stay as they are.*)
(***************************************************************************)
do_exec ==
    /\ UNCHANGED <<engVars, layerOrder, stopSlot, ranSince, frontBackFront,
                   restVars, loopVars, lists>>
    /\ vmpc = "dispatch"
    /\ NextOp = OP_EXEC
    /\ LET f == Functions(script)[m_bytecode[pos + 2] + 1]
           rg == FREE_REGS(regs, f.frees)
       IN IF f.stop
          THEN /\ callTree' = <<>>
               /\ procedureArgTree' = <<>>
               /\ procedureArgs' = 0
               /\ nextProcedureArgs' = 0
               /\ yields' = IF ~atomic THEN yields + 1 ELSE yields
               /\ Return(pos + 2, rg, loops)
          ELSE /\ regs' = rg
               /\ pos' = pos + 2
               /\ UNCHANGED <<callVars, callTree, loops, runStack, vmpc, savedPos, yields,
                              conds>>
    /\ UNCHANGED <<script, atEnd, atomic, variables, runs>>

\* the step of do_exec in which the primitive called stop()
ExecStops ==
    /\ do_exec
    /\ Functions(script)[m_bytecode[pos + 2] + 1].stop

(***************************************************************************)
(* Procedures.  INIT_PROCEDURE pushes an empty argument frame, ADD_ARG     *)
(* fills it, CALL_PROCEDURE pushes the return position and enters the      *)
(* procedure, READ_ARG reads the frame m_procedureArgs points to.  The     *)
(* scripts of the model add arguments only after INIT_PROCEDURE and read   *)
(* them only inside a procedure.                                           *)
(***************************************************************************)
do_init_procedure ==
    /\ UNCHANGED <<engVars, layerOrder, stopSlot, ranSince, frontBackFront,
                   restVars, loopVars, lists>>
    /\ vmpc = "dispatch"
    /\ NextOp = OP_INIT_PROCEDURE
    /\ procedureArgTree' = Append(procedureArgTree, <<>>)
    /\ procedureArgs' = IF Len(procedureArgTree') >= 2
                        THEN Len(procedureArgTree') - 1
                        ELSE procedureArgs
    /\ nextProcedureArgs' = Len(procedureArgTree')
    /\ pos' = pos + 1
    /\ UNCHANGED <<script, regs, loops, callTree, atEnd, atomic, variables, runStack, vmpc,
                   savedPos, runs, yields, conds>>

do_call_procedure ==
    /\ UNCHANGED <<engVars, layerOrder, stopSlot, ranSince, frontBackFront,
                   restVars, loopVars, lists,
                   procedureArgTree>>
    /\ vmpc = "dispatch"
    /\ NextOp = OP_CALL_PROCEDURE
    /\ callTree' = Append(callTree, pos + 2)
    /\ procedureArgs' = nextProcedureArgs
    /\ nextProcedureArgs' = 0
    /\ pos' = Procedures(script)[m_bytecode[pos + 2] + 1]
    /\ UNCHANGED <<script, regs, loops, atEnd, atomic, variables, runStack, vmpc, savedPos,
                   runs, yields, conds>>

do_add_arg ==
    /\ UNCHANGED <<engVars, layerOrder, stopSlot, ranSince, frontBackFront,
                   restVars, loopVars, lists,
                   procedureArgs, nextProcedureArgs>>
    /\ vmpc = "dispatch"
    /\ NextOp = OP_ADD_ARG
    /\ nextProcedureArgs # 0
    /\ procedureArgTree' = [procedureArgTree EXCEPT
                                ![nextProcedureArgs] = Append(@, READ_LAST_REG(regs))]
    /\ regs' = FREE_REGS(regs, 1)
    /\ pos' = pos + 1
    /\ UNCHANGED <<script, loops, callTree, atEnd, atomic, variables, runStack, vmpc,
                   savedPos, runs, yields, conds>>

do_read_arg ==
    /\ UNCHANGED <<engVars, extVars>>
    /\ vmpc = "dispatch"
    /\ NextOp = OP_READ_ARG
    /\ procedureArgs # 0
    /\ regs' = ADD_RET_VALUE(regs, procedureArgTree[procedureArgs][m_bytecode[pos + 2] + 1])
    /\ pos' = pos + 2
    /\ UNCHANGED <<script, loops, callTree, atEnd, atomic, variables, runStack, vmpc,
                   savedPos, runs, yields, conds>>

(***************************************************************************)
(* Lists.  LIST_DEL takes "last", "all", "random" or a number counted from *)
(* 1; a number outside the list deletes nothing.                           *)
(***************************************************************************)
\* an index that takes the last item for one outside the list
FIX_LIST_INDEX_Exclusive(index, listSize) ==
    IF (listSize = 0) \/ (index < 1) \/ (index >= listSize) THEN 0 ELSE index

\* if ((listSize == 0) || (index < 1) || (index > listSize)) index = 0
FIX_LIST_INDEX(index, listSize) ==
    IF (listSize = 0) \/ (index < 1) \/ (index > listSize) THEN 0 ELSE index

\* List::removeAt(index), counted from 0
removeAt(list, index) ==
    SubSeq(list, 1, index) \o SubSeq(list, index + 2, Len(list))

do_list_append ==
    /\ UNCHANGED <<engVars, layerOrder, stopSlot, ranSince, frontBackFront, restVars, loopVars,
                   procedureArgTree, procedureArgs, nextProcedureArgs>>
    /\ vmpc = "dispatch"
    /\ NextOp = OP_LIST_APPEND
    /\ lists' = [lists EXCEPT ![m_bytecode[pos + 2] + 1] = Append(@, READ_LAST_REG(regs))]
    /\ regs' = FREE_REGS(regs, 1)
    /\ pos' = pos + 2
    /\ UNCHANGED <<script, loops, callTree, atEnd, atomic, variables, runStack, vmpc,
                   savedPos, runs, yields, conds>>

\* randint(1, size) is any of 1..size
do_list_del ==
    /\ UNCHANGED <<engVars, layerOrder, stopSlot, ranSince, frontBackFront, restVars, loopVars,
                   procedureArgTree, procedureArgs, nextProcedureArgs>>
    /\ vmpc = "dispatch"
    /\ NextOp = OP_LIST_DEL
    /\ LET indexValue == READ_LAST_REG(regs)
           l == m_bytecode[pos + 2] + 1
           list == lists[l]
           str == indexValue.v
       IN \E random \in 1..(IF Len(list) = 0 THEN 1 ELSE Len(list)) :
            LET cleared == IF isString(indexValue) /\ str = "all" THEN <<>> ELSE list
                index == IF isString(indexValue)
                         THEN CASE str = "last" -> Len(list)
                                [] str = "all" -> 0
                                [] str = "random" -> IF Len(list) = 0 THEN 0 ELSE random
                                [] OTHER -> 0
                         ELSE FIX_LIST_INDEX(ToSizeT(toLong(indexValue)), Len(list))
            IN lists' = [lists EXCEPT ![l] = IF index # 0
                                             THEN removeAt(cleared, index - 1)
                                             ELSE cleared]
    /\ regs' = FREE_REGS(regs, 1)
    /\ pos' = pos + 2
    /\ UNCHANGED <<script, loops, callTree, atEnd, atomic, variables, runStack, vmpc,
                   savedPos, runs, yields, conds>>

(***************************************************************************)
(* The engine.  Targets are named; a clone of Sprite1 is named by          *)
(* CloneNames.  A script is a record of its top (hat) block: the target    *)
(* that owns it, the hat type it was registered under and the value of     *)
(* the hat's field (broadcast name or key), "" when it has none.           *)
(***************************************************************************)
Stage == "stage"
Sprite1 == "s1"
CloneNames == <<"c1", "c2", "c3", "c4", "c5">>
NoTarget == ""

Range(f) == {f[k] : k \in DOMAIN f}
IsClone(t) == t \in Range(CloneNames)
\* sprite->cloneSprite(): the root of a clone
cloneSprite(t) == IF IsClone(t) THEN Sprite1 ELSE t

HatTypes == {"GreenFlag", "BroadcastReceived", "BackdropChanged", "CloneInit", "KeyPressed"}

\* a table in which every hat type restarts its threads
m_hatRestartExistingThreads_All(hatType) == hatType \in HatTypes

m_hatRestartExistingThreads(hatType) ==
    hatType \in {"GreenFlag", "BroadcastReceived", "BackdropChanged"}

\* the scripts of a project with a stage and one sprite, in the order of their
\* add...Script() calls
ProjectScripts ==
    <<[id |-> "gfStage", target |-> Stage, hat |-> "GreenFlag", field |-> ""],
      [id |-> "gfS1", target |-> Sprite1, hat |-> "GreenFlag", field |-> ""],
      [id |-> "bcS1", target |-> Sprite1, hat |-> "BroadcastReceived", field |-> "foo"],
      [id |-> "ciS1", target |-> Sprite1, hat |-> "CloneInit", field |-> ""],
      [id |-> "keyS1", target |-> Sprite1, hat |-> "KeyPressed", field |-> "a"],
      [id |-> "keyStage", target |-> Stage, hat |-> "KeyPressed", field |-> "any"]>>

Keys == {"a", "b"}
Broadcasts == {"foo"}
FpsValues == {180, 250}
CloneLimits == {-1, 1}
StartedScripts == {"gfS1"}
ElapsedValues == {0, 3, 4}

ScriptById(id) == CHOOSE sc \in Range(hatScripts) : sc.id = id

\* a hat lookup that does not go to the root of a clone
getHats_NoRoot(target, hatType) ==
    SelectSeq(hatScripts, LAMBDA sc : sc.target = target /\ sc.hat = hatType)

\* getHats(target, type): the hats registered for the target, or for its root
getHats(target, hatType) ==
    SelectSeq(hatScripts, LAMBDA sc : sc.target = cloneSprite(target) /\ sc.hat = hatType)

\* the calls f(script, target) allScriptsByOpcodeDo makes, in order: the targets
\* from the last to the first, the hats of a target in their order
RECURSIVE ScriptCalls(_, _, _)
ScriptCalls(targets, t, hatType) ==
    IF t = 0 THEN <<>>
    ELSE LET hs == getHats(targets[t], hatType)
         IN [j \in 1..Len(hs) |-> [script |-> hs[j].id, target |-> targets[t]]]
                \o ScriptCalls(targets, t - 1, hatType)

Reverse(seq) == [k \in 1..Len(seq) |-> seq[Len(seq) + 1 - k]]

\* a walk over the targets from the first to the last
allScriptsByOpcodeDo_Forward(hatType, optTarget, exe) ==
    LET targets == IF optTarget # NoTarget THEN <<optTarget>> ELSE Reverse(exe)
    IN ScriptCalls(targets, Len(targets), hatType)

allScriptsByOpcodeDo(hatType, optTarget, exe) ==
    LET targets == IF optTarget # NoTarget THEN <<optTarget>> ELSE exe
    IN ScriptCalls(targets, Len(targets), hatType)

(***************************************************************************)
(* Threads.  st is the part of the engine a thread start changes:          *)
(* [threads, vms, hist].  A new VirtualMachine gets the next free number.  *)
(***************************************************************************)
NextId(st) == Cardinality(DOMAIN st.hist) + 1

\* script->start(target)
NewVm(scriptId, target) ==
    [target |-> target, script |-> scriptId, atEnd |-> FALSE, killed |-> FALSE]

NewHist(slot) ==
    [born |-> pc = "running", ahead |-> pc = "running" /\ slot > i, ran |-> FALSE]

\* pushThread / addRunningScript: m_threads.push_back(vm)
pushThread(st, scriptId, target) ==
    LET id == NextId(st)
    IN [threads |-> Append(st.threads, id),
        vms |-> (id :> NewVm(scriptId, target)) @@ st.vms,
        hist |-> (id :> NewHist(Len(st.threads))) @@ st.hist]

\* a restartThread that resets the old VirtualMachine instead of making a new one
restartThread_SameVm(st, slot) ==
    [st EXCEPT !.vms[st.threads[slot]].atEnd = FALSE]

\* a restartThread that appends the new thread instead of using the old one's slot
restartThread_Append(st, slot) ==
    LET old == st.vms[st.threads[slot]]
        id == NextId(st)
        rest == [k \in 1..(Len(st.threads) - 1) |->
                    IF k < slot THEN st.threads[k] ELSE st.threads[k + 1]]
    IN [threads |-> Append(rest, id),
        vms |-> (id :> NewVm(old.script, old.target)) @@ st.vms,
        hist |-> (id :> NewHist(Len(rest))) @@ st.hist]

\* restartThread(thread), thread being m_threads[slot - 1]: m_threads[i] = newThread
restartThread(st, slot) ==
    LET old == st.vms[st.threads[slot]]
        id == NextId(st)
    IN [threads |-> [st.threads EXCEPT ![slot] = id],
        vms |-> (id :> NewVm(old.script, old.target)) @@ st.vms,
        hist |-> (id :> NewHist(slot - 1)) @@ st.hist]

\* the slots of the threads of (target, script)
SlotsOf(st, scriptId, target) ==
    {k \in 1..Len(st.threads) :
        st.vms[st.threads[k]].target = target /\ st.vms[st.threads[k]].script = scriptId}

Min(S) == CHOOSE x \in S : \A y \in S : x <= y

\* a test that never finds a running thread
AlreadyRunning_Never(st, scriptId, target) == FALSE

\* thread->target() == target && thread->script() == script && !thread->atEnd()
AlreadyRunning(st, scriptId, target) ==
    \E k \in SlotsOf(st, scriptId, target) : ~st.vms[st.threads[k]].atEnd

\* the lambda of startHats, for one script of one target
StartHat(st, call, hatType, matchFields) ==
    IF matchFields # <<>> /\ ScriptById(call.script).field # matchFields[1]
    THEN st
    ELSE IF m_hatRestartExistingThreads(hatType)
         THEN IF SlotsOf(st, call.script, call.target) # {}
              THEN restartThread(st, Min(SlotsOf(st, call.script, call.target)))
              ELSE pushThread(st, call.script, call.target)
         ELSE IF AlreadyRunning(st, call.script, call.target)
              THEN st
              ELSE pushThread(st, call.script, call.target)

RECURSIVE StartHatsFrom(_, _, _, _, _)
StartHatsFrom(st, calls, n, hatType, matchFields) ==
    IF n > Len(calls) THEN st
    ELSE StartHatsFrom(StartHat(st, calls[n], hatType, matchFields), calls, n + 1,
                       hatType, matchFields)

\* startHats(hatType, optMatchFields, optTarget) with the executable targets exe
startHats(st, hatType, matchFields, optTarget, exe) ==
    StartHatsFrom(st, allScriptsByOpcodeDo(hatType, optTarget, exe), 1, hatType, matchFields)

\* a VirtualMachine that neither m_threads nor m_activeThread points to is destroyed
Live(ths, active) == Range(ths) \cup {active}
Destroy(vm, ths, active) == [id \in DOMAIN vm \cap Live(ths, active) |-> vm[id]]
NoHist == [born |-> FALSE, ahead |-> FALSE, ran |-> FALSE]
Forget(h, ths, active) ==
    [id \in DOMAIN h |-> IF id \in Live(ths, active) THEN h[id] ELSE NoHist]

Now == [threads |-> threads, vms |-> vms, hist |-> hist]

\* the engine takes the threads of st
SetThreads(st) ==
    /\ threads' = st.threads
    /\ vms' = Destroy(st.vms, st.threads, activeThread)
    /\ hist' = Forget(st.hist, st.threads, activeThread)

(***************************************************************************)
(* Calls of the host, made between two steps.                              *)
(***************************************************************************)
\* a removal that leaves the clones among the executable targets
removeExecutableClones_Keep(exe) == exe

\* removeExecutableClones
removeExecutableClones(exe) == SelectSeq(exe, LAMBDA t : t \notin clones)

\* start(): deleteClones(), then the "when green flag clicked" scripts
startCall ==
    /\ pc = "idle"
    /\ executableTargets' = removeExecutableClones(executableTargets)
    /\ clones' = {}
    /\ running' = TRUE
    /\ SetThreads(startHats(Now, "GreenFlag", <<>>, NoTarget,
                            removeExecutableClones(executableTargets)))
    /\ UNCHANGED <<hatScripts, cloneLimit, nextClone, threadsToStop, activeThread,
                   redrawRequested, turboModeEnabled, redrawHandler, fps, frameDuration,
                   keyMap, elapsed, numActiveThreads, i, pc, draws, passAfterRedraw>>

\* start() called by the host between two steps
start == startCall /\ UNCHANGED <<vmVars, extVars>>

\* a setKeyState that leaves out the scripts of the key "any"
setKeyState_NoAny(key, pressed) ==
    /\ pc = "idle"
    /\ keyMap' = [keyMap EXCEPT ![key] = pressed]
    /\ IF pressed
       THEN SetThreads(startHats(Now, "KeyPressed", <<key>>, NoTarget, executableTargets))
       ELSE UNCHANGED <<threads, vms, hist>>
    /\ UNCHANGED <<hatScripts, executableTargets, clones, cloneLimit, nextClone,
                   threadsToStop, activeThread, redrawRequested, turboModeEnabled,
                   redrawHandler, running, fps, frameDuration, elapsed, numActiveThreads,
                   i, pc, draws, passAfterRedraw>>
    /\ UNCHANGED <<vmVars, extVars>>

\* setKeyState(name, pressed)
setKeyState(key, pressed) ==
    /\ pc = "idle"
    /\ keyMap' = [keyMap EXCEPT ![key] = pressed]
    /\ IF pressed
       THEN SetThreads(startHats(startHats(Now, "KeyPressed", <<key>>, NoTarget,
                                           executableTargets),
                                 "KeyPressed", <<"any">>, NoTarget, executableTargets))
       ELSE UNCHANGED <<threads, vms, hist>>
    /\ UNCHANGED <<hatScripts, executableTargets, clones, cloneLimit, nextClone,
                   threadsToStop, activeThread, redrawRequested, turboModeEnabled,
                   redrawHandler, running, fps, frameDuration, elapsed, numActiveThreads,
                   i, pc, draws, passAfterRedraw>>
    /\ UNCHANGED <<vmVars, extVars>>

\* startScript(topLevelBlock, target), called by the host
hostStartScript(scriptId, target) ==
    /\ pc = "idle"
    /\ SetThreads(pushThread(Now, scriptId, target))
    /\ UNCHANGED <<hatScripts, executableTargets, clones, cloneLimit, nextClone,
                   threadsToStop, activeThread, redrawRequested, turboModeEnabled,
                   redrawHandler, running, fps, frameDuration, keyMap, elapsed,
                   numActiveThreads, i, pc, draws, passAfterRedraw>>
    /\ UNCHANGED <<vmVars, extVars>>

\* a limit test that rejects a clone only when the limit is exceeded
CloneLimitReached_Exceeded == cloneLimit >= 0 /\ Cardinality(clones) > cloneLimit

\* m_cloneLimit >= 0 && m_clones.size() >= m_cloneLimit
CloneLimitReached == cloneLimit >= 0 /\ Cardinality(clones) >= cloneLimit

\* initClone(clone), called by the host for a new clone of Sprite1
hostInitClone ==
    /\ pc = "idle"
    /\ LET clone == CloneNames[nextClone]
       IN IF CloneLimitReached
          THEN UNCHANGED <<threads, vms, hist, clones, executableTargets>>
          ELSE /\ SetThreads(startHats(Now, "CloneInit", <<>>, clone, executableTargets))
               /\ clones' = clones \cup {clone}
               /\ executableTargets' = Append(executableTargets, clone)
    /\ nextClone' = nextClone + 1
    /\ UNCHANGED <<hatScripts, cloneLimit, threadsToStop, activeThread, redrawRequested,
                   turboModeEnabled, redrawHandler, running, fps, frameDuration, keyMap,
                   elapsed, numActiveThreads, i, pc, draws, passAfterRedraw>>
    /\ UNCHANGED <<vmVars, extVars>>

(***************************************************************************)
(* Broadcasts.  A project with a stage and two sprites: three "when I      *)
(* receive foo" hats on two targets, two of them on Sprite1 with a hat for *)
(* another broadcast registered between them, and a backdrop hat.          *)
(***************************************************************************)
Sprite2 == "s2"

BroadcastScripts ==
    <<[id |-> "fooStage", target |-> Stage, hat |-> "BroadcastReceived", field |-> "foo"],
      [id |-> "fooS1a", target |-> Sprite1, hat |-> "BroadcastReceived", field |-> "foo"],
      [id |-> "barS1", target |-> Sprite1, hat |-> "BroadcastReceived", field |-> "bar"],
      [id |-> "fooS1b", target |-> Sprite1, hat |-> "BroadcastReceived", field |-> "foo"],
      [id |-> "barS2", target |-> Sprite2, hat |-> "BroadcastReceived", field |-> "bar"],
      [id |-> "bdStage", target |-> Stage, hat |-> "BackdropChanged", field |-> "night"]>>

\* m_broadcasts: the broadcasts of the project; "baz" has no receiver, "night" is
\* the broadcast of a backdrop
m_broadcasts ==
    {[name |-> "foo", isBackdropBroadcast |-> FALSE],
     [name |-> "bar", isBackdropBroadcast |-> FALSE],
     [name |-> "baz", isBackdropBroadcast |-> FALSE],
     [name |-> "night", isBackdropBroadcast |-> TRUE]}

\* broadcast(index) / broadcastByPtr(broadcast), called by the host
hostBroadcast(name) ==
    /\ pc = "idle"
    /\ SetThreads(startHats(Now, "BroadcastReceived", <<name>>, NoTarget, executableTargets))
    /\ UNCHANGED <<hatScripts, executableTargets, clones, cloneLimit, nextClone,
                   threadsToStop, activeThread, redrawRequested, turboModeEnabled,
                   redrawHandler, running, fps, frameDuration, keyMap, elapsed,
                   numActiveThreads, i, pc, draws, passAfterRedraw>>
    /\ UNCHANGED <<vmVars, extVars>>

\* startBackdropScripts(broadcast), called by the host
startBackdropScripts(name) ==
    /\ pc = "idle"
    /\ SetThreads(startHats(Now, "BackdropChanged", <<name>>, NoTarget, executableTargets))
    /\ UNCHANGED <<hatScripts, executableTargets, clones, cloneLimit, nextClone,
                   threadsToStop, activeThread, redrawRequested, turboModeEnabled,
                   redrawHandler, running, fps, frameDuration, keyMap, elapsed,
                   numActiveThreads, i, pc, draws, passAfterRedraw>>
    /\ UNCHANGED <<vmVars, extVars>>

\* m_broadcastMap[broadcast]: the scripts addBroadcastScript was called with
m_broadcastMap(name) ==
    {sc.id : sc \in {h \in Range(hatScripts) :
                        h.hat = "BroadcastReceived" /\ h.field = name}}

\* a test that takes finished threads too
ThreadNotAtEnd_Always(id) == TRUE

\* if (!thread->atEnd())
ThreadNotAtEnd(id) == ~vms[id].atEnd

\* broadcastByPtrRunning(broadcast)
broadcastByPtrRunning(b) ==
    IF b.isBackdropBroadcast
    THEN \E k \in 1..Len(threads) :
            /\ ThreadNotAtEnd(threads[k])
            /\ LET sc == ScriptById(vms[threads[k]].script)
               IN /\ sc.id \in {h.id : h \in Range(getHats(sc.target, "BackdropChanged"))}
                  /\ sc.field = b.name
    ELSE \E k \in 1..Len(threads) :
            /\ ThreadNotAtEnd(threads[k])
            /\ vms[threads[k]].script \in m_broadcastMap(b.name)

(***************************************************************************)
(* Clones.  A project with two "when I start as a clone" hats on Sprite1,  *)
(* one on Sprite2 registered between them, and a green flag script.        *)
(***************************************************************************)
CloneScripts ==
    <<[id |-> "gfS1", target |-> Sprite1, hat |-> "GreenFlag", field |-> ""],
      [id |-> "ciS1a", target |-> Sprite1, hat |-> "CloneInit", field |-> ""],
      [id |-> "ciS2", target |-> Sprite2, hat |-> "CloneInit", field |-> ""],
      [id |-> "ciS1b", target |-> Sprite1, hat |-> "CloneInit", field |-> ""]>>

\* the arguments of setCloneLimit
LimitValues == {-5, -1, 1, 2}

\* the clones made so far, accepted by initClone or not
ClonesMade == {CloneNames[k] : k \in 1..(nextClone - 1)}

\* an erase that leaves the list as it is
EraseTarget_Nothing(exe, t) == exe

\* m_executableTargets.erase(std::remove(begin, end, t), end)
EraseTarget(exe, t) == SelectSeq(exe, LAMBDA x : x # t)

\* deinitClone(clone)
deinitClone(clone) ==
    /\ pc = "idle"
    /\ clones' = clones \ {clone}
    /\ executableTargets' = EraseTarget(executableTargets, clone)
    /\ UNCHANGED <<hatScripts, cloneLimit, nextClone, threads, threadsToStop, vms,
                   activeThread, redrawRequested, turboModeEnabled, redrawHandler, running,
                   fps, frameDuration, keyMap, elapsed, numActiveThreads, i, pc, hist,
                   draws, passAfterRedraw>>
    /\ UNCHANGED <<vmVars, extVars>>

\* deleteClones(), called by the host
deleteClones ==
    /\ pc = "idle"
    /\ executableTargets' = removeExecutableClones(executableTargets)
    /\ clones' = {}
    /\ UNCHANGED <<hatScripts, cloneLimit, nextClone, threads, threadsToStop, vms,
                   activeThread, redrawRequested, turboModeEnabled, redrawHandler, running,
                   fps, frameDuration, keyMap, elapsed, numActiveThreads, i, pc, hist,
                   draws, passAfterRedraw>>
    /\ UNCHANGED <<vmVars, extVars>>

\* stop(), called by the host: there is no active thread
hostStop ==
    /\ pc = "idle"
    /\ executableTargets' = removeExecutableClones(executableTargets)
    /\ clones' = {}
    /\ SetThreads([threads |-> <<>>, vms |-> vms, hist |-> hist])
    /\ running' = FALSE
    /\ UNCHANGED <<hatScripts, cloneLimit, nextClone, threadsToStop, activeThread,
                   redrawRequested, turboModeEnabled, redrawHandler, fps, frameDuration,
                   keyMap, elapsed, numActiveThreads, i, pc, draws, passAfterRedraw>>
    /\ UNCHANGED <<vmVars, extVars>>

\* setCloneLimit(limit)
setCloneLimit(limit) ==
    /\ pc = "idle"
    /\ cloneLimit' = (IF limit < 0 THEN -1 ELSE limit)
    /\ UNCHANGED <<hatScripts, executableTargets, clones, nextClone, threads,
                   threadsToStop, vms, activeThread, redrawRequested, turboModeEnabled,
                   redrawHandler, running, fps, frameDuration, keyMap, elapsed,
                   numActiveThreads, i, pc, hist, draws, passAfterRedraw>>
    /\ UNCHANGED <<vmVars, extVars>>

(***************************************************************************)
(* Layers.  Positions in m_executableTargets are counted from 0, as the    *)
(* iterators of the code are: begin() is 0 (the stage), end() is the size. *)
(* A call returns the new list and whether it went through                 *)
(* updateSpriteLayerOrder.                                                  *)
(***************************************************************************)
LayerCounts == {0, 1, 2, 5}

\* std::find(m_executableTargets.begin(), m_executableTargets.end(), sprite)
Find(exe, sprite) ==
    IF sprite \in Range(exe)
    THEN (CHOOSE k \in 1..Len(exe) : exe[k] = sprite) - 1
    ELSE Len(exe)

\* std::rotate(first, middle, last): [middle, last) comes before [first, middle)
Rotate(exe, first, middle, last) ==
    [k \in 1..Len(exe) |->
        IF k - 1 < first \/ k - 1 >= last THEN exe[k]
        ELSE IF k - 1 < first + (last - middle) THEN exe[k + (middle - first)]
        ELSE exe[k - (last - middle)]]

Returned(exe, updated) == [exe |-> exe, updated |-> updated]

\* a move to the front that goes one layer forward only
ToFront_OneLayer(exe, sprite) ==
    IF sprite = NoTarget \/ Len(exe) <= 2
    THEN Returned(exe, FALSE)
    ELSE LET it == Find(exe, sprite)
         IN IF it < Len(exe) - 1
            THEN Returned(Rotate(exe, it, it + 1, it + 2), TRUE)
            ELSE Returned(exe, FALSE)

\* moveSpriteToFront(sprite)
ToFront(exe, sprite) ==
    IF sprite = NoTarget \/ Len(exe) <= 2
    THEN Returned(exe, FALSE)
    ELSE LET it == Find(exe, sprite)
         IN IF it # Len(exe)
            THEN Returned(Rotate(exe, it, it + 1, Len(exe)), TRUE)
            ELSE Returned(exe, FALSE)

\* moveSpriteToBack(sprite)
ToBack(exe, sprite) ==
    IF sprite = NoTarget \/ Len(exe) <= 2
    THEN Returned(exe, FALSE)
    ELSE LET it == Find(exe, sprite)
         IN IF it # Len(exe)
            THEN Returned(Rotate(exe, 1, it, it + 1), TRUE)
            ELSE Returned(exe, FALSE)

\* target <= m_executableTargets.begin()
ClampedToBack(target) == target <= 0

\* target >= m_executableTargets.end()
ClampedToFront(exe, target) == target >= Len(exe)

\* moveSpriteForwardLayers(sprite, layers), the iterator it + layers being target
ForwardLayers(exe, sprite, layers) ==
    IF sprite = NoTarget \/ layers = 0
    THEN Returned(exe, FALSE)
    ELSE LET it == Find(exe, sprite)
             target == it + layers
         IN IF it = Len(exe) THEN Returned(exe, FALSE)
            ELSE IF ClampedToBack(target) THEN ToBack(exe, sprite)
            ELSE IF ClampedToFront(exe, target) THEN ToFront(exe, sprite)
            ELSE IF layers > 0
                 THEN Returned(Rotate(exe, it, it + 1, target + 1), TRUE)
                 ELSE Returned(Rotate(exe, target, it, it + 1), TRUE)

\* auto target = it + layers: an iterator before begin() or after end() is undefined
IteratorInRange(exe, sprite, layers) ==
    \/ sprite = NoTarget
    \/ layers = 0
    \/ Find(exe, sprite) = Len(exe)
    \/ (Find(exe, sprite) + layers >= 0 /\ Find(exe, sprite) + layers <= Len(exe))

\* a move behind the other sprite that forgets the slot the sprite itself leaves
BehindOther_NoAdjust(exe, sprite, other) ==
    IF sprite = other THEN Returned(exe, FALSE)
    ELSE LET itSprite == Find(exe, sprite)
             itOther == Find(exe, other)
             target == itOther - 1
         IN IF itSprite = Len(exe) \/ itOther = Len(exe) THEN Returned(exe, FALSE)
            ELSE IF ClampedToBack(target) THEN ToBack(exe, sprite)
            ELSE IF ClampedToFront(exe, target) THEN ToFront(exe, sprite)
            ELSE IF target > itSprite
                 THEN Returned(Rotate(exe, itSprite, itSprite + 1, target + 1), TRUE)
                 ELSE Returned(Rotate(exe, target, itSprite, itSprite + 1), TRUE)

\* moveSpriteBehindOther(sprite, other)
BehindOther(exe, sprite, other) ==
    IF sprite = other THEN Returned(exe, FALSE)
    ELSE LET itSprite == Find(exe, sprite)
             itOther == Find(exe, other)
             target == IF itOther - 1 < itSprite THEN itOther ELSE itOther - 1
         IN IF itSprite = Len(exe) \/ itOther = Len(exe) THEN Returned(exe, FALSE)
            ELSE IF ClampedToBack(target) THEN ToBack(exe, sprite)
            ELSE IF ClampedToFront(exe, target) THEN ToFront(exe, sprite)
            ELSE IF target > itSprite
                 THEN Returned(Rotate(exe, itSprite, itSprite + 1, target + 1), TRUE)
                 ELSE Returned(Rotate(exe, target, itSprite, itSprite + 1), TRUE)

\* an update that leaves the layer orders as they are
updateSpriteLayerOrder_Skipped(exe, order) == order

\* updateSpriteLayerOrder(): setLayerOrder(i) for i = 1 .. size - 1
updateSpriteLayerOrder(exe, order) ==
    [t \in DOMAIN order |-> IF t \in Range(exe) /\ Find(exe, t) >= 1 THEN Find(exe, t)
                            ELSE order[t]]

NoCalls == [sprite |-> NoTarget, calls |-> 0, exe |-> <<>>]

\* the layer call leaves the list and the layer orders of the result r
LayersReturn(r) ==
    /\ pc = "idle"
    /\ executableTargets' = r.exe
    /\ layerOrder' = (IF r.updated THEN updateSpriteLayerOrder(r.exe, layerOrder)
                      ELSE layerOrder)
    /\ UNCHANGED <<hatScripts, clones, cloneLimit, nextClone, threads, threadsToStop, vms,
                   activeThread, redrawRequested, turboModeEnabled, redrawHandler, running,
                   fps, frameDuration, keyMap, elapsed, numActiveThreads, i, pc, hist,
                   draws, passAfterRedraw>>
    /\ UNCHANGED <<vmVars, stopSlot, ranSince, loopVars, callVars, restVars>>

\* the calls of the sequence front, back, front that sprite has behind it, each
\* made on the list the call before it left
Continues(sprite, n) ==
    /\ frontBackFront.sprite = sprite
    /\ frontBackFront.calls = n
    /\ frontBackFront.exe = executableTargets

moveSpriteToFront(sprite) ==
    /\ LayersReturn(ToFront(executableTargets, sprite))
    /\ frontBackFront' =
            (IF Continues(sprite, 2)
             THEN [sprite |-> sprite, calls |-> 3, exe |-> executableTargets']
             ELSE IF sprite \in Range(executableTargets)
                  THEN [sprite |-> sprite, calls |-> 1, exe |-> executableTargets']
                  ELSE NoCalls)

moveSpriteToBack(sprite) ==
    /\ LayersReturn(ToBack(executableTargets, sprite))
    /\ frontBackFront' =
            (IF Continues(sprite, 1)
             THEN [sprite |-> sprite, calls |-> 2, exe |-> executableTargets']
             ELSE NoCalls)

\* with checked iterators an iterator out of range ends the program; that build
\* is one the undefined it + layers allows
moveSpriteForwardLayers(sprite, layers, checked) ==
    /\ IF checked /\ ~IteratorInRange(executableTargets, sprite, layers)
       THEN /\ pc = "idle"
            /\ pc' = "aborted"
            /\ UNCHANGED <<hatScripts, executableTargets, clones, cloneLimit, nextClone,
                           threads, threadsToStop, vms, activeThread, redrawRequested,
                           turboModeEnabled, redrawHandler, running, fps, frameDuration,
                           keyMap, elapsed, numActiveThreads, i, hist, draws,
                           passAfterRedraw>>
            /\ UNCHANGED <<vmVars, layerOrder, stopSlot, ranSince, loopVars, callVars, restVars>>
       ELSE LayersReturn(ForwardLayers(executableTargets, sprite, layers))
    /\ frontBackFront' = NoCalls

\* moveSpriteBackwardLayers(sprite, layers): moveSpriteForwardLayers(sprite, -layers)
moveSpriteBackwardLayers(sprite, layers, checked) ==
    moveSpriteForwardLayers(sprite, -layers, checked)

moveSpriteBehindOther(sprite, other) ==
    /\ LayersReturn(BehindOther(executableTargets, sprite, other))
    /\ frontBackFront' = NoCalls

(***************************************************************************)
(* step() and stepThreads().                                               *)
(***************************************************************************)
NotAtEnd(ths, vm) == SelectSeq(ths, LAMBDA id : ~vm[id].atEnd)

\* step() up to the first test of stepThreads' while loop
stepCall ==
    /\ pc = "idle"
    /\ threads' = NotAtEnd(threads, vms)
    /\ vms' = Destroy(vms, NotAtEnd(threads, vms), activeThread)
    /\ hist' = Forget(hist, NotAtEnd(threads, vms), activeThread)
    /\ redrawRequested' = FALSE
    /\ elapsed' = 0
    /\ numActiveThreads' = 1
    /\ pc' = "while"
    /\ draws' = 0
    /\ passAfterRedraw' = FALSE
    /\ UNCHANGED <<hatScripts, executableTargets, clones, cloneLimit, nextClone,
                   threadsToStop, activeThread, turboModeEnabled, redrawHandler,
                   running, fps, frameDuration, keyMap, i>>

\* step() called by the host
step == stepCall /\ UNCHANGED <<vmVars, extVars>>

\* a test that lets a pass begin at exactly 75% of the frame duration
TimeLeft_Inclusive(ms) == 4 * ms <= 3 * frameDuration

\* elapsedTime() < WORK_TIME, WORK_TIME being 0.75 * m_frameDuration.count()
TimeLeft(ms) == 4 * ms < 3 * frameDuration

\* a test that forgets turbo mode
RedrawAllows_NoTurbo == ~redrawRequested

\* m_turboModeEnabled || !m_redrawRequested
RedrawAllows == turboModeEnabled \/ ~redrawRequested

\* the condition of stepThreads' while loop
AnotherPass ==
    /\ threads # <<>>
    /\ numActiveThreads > 0
    /\ TimeLeft(elapsed)
    /\ RedrawAllows

\* the while test: a pass begins, or stepThreads returns
whileTest ==
    /\ pc = "while"
    /\ IF AnotherPass
       THEN /\ numActiveThreads' = 0
            /\ i' = 0
            /\ pc' = "for"
            /\ passAfterRedraw' = (passAfterRedraw \/ redrawRequested)
            /\ hist' = [id \in DOMAIN hist |-> NoHist]
            /\ UNCHANGED <<running, activeThread, vms, elapsed>>
       ELSE /\ running' = (IF threads = <<>> THEN FALSE ELSE running)
            /\ activeThread' = 0
            /\ vms' = Destroy(vms, threads, 0)
            /\ hist' = [id \in DOMAIN hist |-> NoHist]
            /\ pc' = "draw"
            /\ numActiveThreads' = 0
            /\ i' = 0
            /\ elapsed' = 0
            /\ UNCHANGED passAfterRedraw
    /\ UNCHANGED <<hatScripts, executableTargets, clones, cloneLimit, nextClone, threads,
                   threadsToStop, redrawRequested, turboModeEnabled, redrawHandler,
                   fps, frameDuration, keyMap, draws>>
    /\ UNCHANGED <<vmVars, extVars>>

\* a for loop that stops at the threads the pass began with
ForBound_AtPassStart == Cardinality({id \in DOMAIN hist : ~hist[id].born /\ id \in Range(threads)})

\* the bound of the for loop, read at every iteration: m_threads.size()
ForBound == Len(threads)

\* one iteration of the for loop, up to the call of thread->run()
forThread ==
    /\ pc = "for"
    /\ i < ForBound
    /\ activeThread' = threads[i + 1]
    /\ vms' = Destroy(vms, threads, threads[i + 1])
    /\ IF vms[threads[i + 1]].atEnd
       THEN /\ i' = i + 1
            /\ hist' = Forget(hist, threads, threads[i + 1])
            /\ UNCHANGED pc
       ELSE /\ pc' = "running"
            /\ hist' = [Forget(hist, threads, threads[i + 1])
                            EXCEPT ![threads[i + 1]].ran = hist[threads[i + 1]].born]
            /\ UNCHANGED i
    /\ ranSince' = (IF threads[i + 1] \in Range(threadsToStop) /\ ~vms[threads[i + 1]].atEnd
                    THEN ranSince \cup {threads[i + 1]}
                    ELSE ranSince)
    /\ UNCHANGED <<hatScripts, executableTargets, clones, cloneLimit, nextClone, threads,
                   threadsToStop, redrawRequested, turboModeEnabled, redrawHandler,
                   running, fps, frameDuration, keyMap, elapsed, numActiveThreads, draws,
                   passAfterRedraw>>
    /\ UNCHANGED <<vmVars, layerOrder, stopSlot, frontBackFront, loopVars, callVars, restVars>>

\* a pass end that leaves the threads to stop in the list
RemoveStopped_Nothing(ths, stopped) == ths

\* for (auto thread : m_threadsToStop) m_threads.erase(std::remove(..., thread), ...)
RemoveStopped(ths, stopped) == SelectSeq(ths, LAMBDA id : id \notin Range(stopped))

\* the end of a pass: the threads to stop and the finished threads are removed
passEnd ==
    /\ pc = "for"
    /\ i >= ForBound
    /\ LET kept == NotAtEnd(RemoveStopped(threads, threadsToStop), vms)
       IN /\ threads' = kept
          /\ vms' = Destroy(vms, kept, activeThread)
          /\ hist' = Forget(hist, kept, activeThread)
    /\ pc' = "while"
    /\ UNCHANGED <<hatScripts, executableTargets, clones, cloneLimit, nextClone,
                   threadsToStop, activeThread, redrawRequested, turboModeEnabled,
                   redrawHandler, running, fps, frameDuration, keyMap, elapsed,
                   numActiveThreads, i, draws, passAfterRedraw>>
    /\ UNCHANGED <<vmVars, extVars>>

\* a step that skips the redraw handler
CallRedrawHandler_Never(n) == n

\* if (m_redrawHandler) m_redrawHandler();
CallRedrawHandler(n) == IF redrawHandler THEN n + 1 ELSE n

\* the end of step(): the redraw handler
renderCall ==
    /\ pc = "draw"
    /\ draws' = CallRedrawHandler(draws)
    /\ pc' = "idle"
    /\ UNCHANGED <<hatScripts, executableTargets, clones, cloneLimit, nextClone, threads,
                   threadsToStop, vms, activeThread, redrawRequested, turboModeEnabled,
                   redrawHandler, running, fps, frameDuration, keyMap, elapsed,
                   numActiveThreads, i, hist, passAfterRedraw>>

\* the end of a step() called by the host
render == renderCall /\ UNCHANGED <<vmVars, extVars>>

(***************************************************************************)
(* thread->run().  The script of the running thread makes at most one call *)
(* of the engine, then yields (end = FALSE) or finishes (end = TRUE); the  *)
(* clock has reached ms when run() returns.  stepThreads then reads        *)
(* m_activeThread->atEnd() and goes to the next slot.                      *)
(***************************************************************************)
RunEnds(st, end, ms) ==
    /\ pc = "running"
    /\ ms >= elapsed
    /\ elapsed' = ms
    /\ threads' = st.threads
    /\ vms' = Destroy([st.vms EXCEPT ![activeThread].atEnd = end], st.threads, activeThread)
    /\ hist' = Forget(st.hist, st.threads, activeThread)
    /\ numActiveThreads' = (IF ~end THEN numActiveThreads + 1 ELSE numActiveThreads)
    /\ i' = i + 1
    /\ pc' = "for"

\* the script calls nothing
runReturns(end, ms) ==
    /\ RunEnds(Now, end, ms)
    /\ UNCHANGED <<hatScripts, executableTargets, clones, cloneLimit, nextClone,
                   threadsToStop, activeThread, redrawRequested, turboModeEnabled,
                   redrawHandler, running, fps, frameDuration, keyMap, draws,
                   passAfterRedraw>>
    /\ UNCHANGED <<vmVars, extVars>>

\* the script calls requestRedraw()
requestRedraw(end, ms) ==
    /\ redrawRequested' = TRUE
    /\ RunEnds(Now, end, ms)
    /\ UNCHANGED <<hatScripts, executableTargets, clones, cloneLimit, nextClone,
                   threadsToStop, activeThread, turboModeEnabled, redrawHandler, running,
                   fps, frameDuration, keyMap, draws, passAfterRedraw>>
    /\ UNCHANGED <<vmVars, extVars>>

\* the script calls broadcast(index) / broadcastByPtr(broadcast)
broadcast(name, end, ms) ==
    /\ RunEnds(startHats(Now, "BroadcastReceived", <<name>>, NoTarget, executableTargets),
               end, ms)
    /\ UNCHANGED <<hatScripts, executableTargets, clones, cloneLimit, nextClone,
                   threadsToStop, activeThread, redrawRequested, turboModeEnabled,
                   redrawHandler, running, fps, frameDuration, keyMap, draws,
                   passAfterRedraw>>
    /\ UNCHANGED <<vmVars, extVars>>

\* the script calls startScript(topLevelBlock, target)
startScript(scriptId, target, end, ms) ==
    /\ RunEnds(pushThread(Now, scriptId, target), end, ms)
    /\ UNCHANGED <<hatScripts, executableTargets, clones, cloneLimit, nextClone,
                   threadsToStop, activeThread, redrawRequested, turboModeEnabled,
                   redrawHandler, running, fps, frameDuration, keyMap, draws,
                   passAfterRedraw>>
    /\ UNCHANGED <<vmVars, extVars>>

\* the script makes a clone of Sprite1: initClone(clone)
initClone(end, ms) ==
    /\ LET clone == CloneNames[nextClone]
       IN IF CloneLimitReached
          THEN /\ RunEnds(Now, end, ms)
               /\ UNCHANGED <<clones, executableTargets>>
          ELSE /\ RunEnds(startHats(Now, "CloneInit", <<>>, clone, executableTargets),
                          end, ms)
               /\ clones' = clones \cup {clone}
               /\ executableTargets' = Append(executableTargets, clone)
    /\ nextClone' = nextClone + 1
    /\ UNCHANGED <<hatScripts, cloneLimit, threadsToStop, activeThread, redrawRequested,
                   turboModeEnabled, redrawHandler, running, fps, frameDuration, keyMap,
                   draws, passAfterRedraw>>
    /\ UNCHANGED <<vmVars, extVars>>

\* thread->kill(): the run() of the killed thread returns with atEnd() true
killed == TRUE

\* the script calls stop(): deleteClones(), stopThread(m_activeThread) and
\* m_threadsToStop = m_threads
stop(ms) ==
    /\ RunEnds(Now, killed, ms)
    /\ executableTargets' = removeExecutableClones(executableTargets)
    /\ clones' = {}
    /\ threadsToStop' = threads
    /\ stopSlot' = i + 1
    /\ ranSince' = {}
    /\ UNCHANGED <<hatScripts, cloneLimit, nextClone, activeThread, redrawRequested,
                   turboModeEnabled, redrawHandler, running, fps, frameDuration, keyMap,
                   draws, passAfterRedraw>>
    /\ UNCHANGED <<vmVars, layerOrder, frontBackFront, loopVars, callVars, restVars>>

(***************************************************************************)
(* Initial states.                                                         *)
(***************************************************************************)
\* a VirtualMachine after construction and the setters, for the script s
VMConstructed(s) ==
    /\ script = s
    /\ pos = 1
    /\ regs = <<>>
    /\ loops = <<>>
    /\ callTree = <<>>
    /\ atEnd = FALSE
    /\ atomic = TRUE
    /\ variables = <<Num(0)>>
    /\ runStack = <<>>
    /\ vmpc = "ready"
    /\ savedPos = 1
    /\ runs = 0
    /\ yields = 0
    /\ conds = 0
    /\ lists = <<IF s.kind = "list" THEN s.init ELSE <<>> >>
    /\ procedureArgTree = <<>>
    /\ procedureArgs = 0
    /\ nextProcedureArgs = 0

\* updateFrameDuration: static_cast<long>(1000 / m_fps)
updateFrameDuration(f) == 1000 \div f

\* the functions (BlockFunc pointers) the block sections register
BlockFuncs == {"f1", "f2", "f3", "f4"}

\* no call of functionIndex yet
NoCall == [f |-> "none", index |-> -1]

\* Engine::Engine(): no function is registered, no mutex is held
EngineConstructed ==
    /\ m_functions = <<>>
    /\ firstIndex = [f \in BlockFuncs |-> -1]
    /\ lastCall = NoCall
    /\ stopEventLoopMutex = "free"

\* an engine after setTargets(targets) and compile() of the project, with the given
\* settings; the targets come sorted by their layer order, a clone has the layer
\* order cloneOrder until the engine sets it
EngineState(targets, cloneOrder, scripts, f, turbo, handler, limit) ==
    /\ hatScripts = scripts
    /\ executableTargets = targets
    /\ layerOrder = [t \in Range(targets) \cup Range(CloneNames) |->
                        IF t \in Range(targets)
                        THEN (CHOOSE k \in 1..Len(targets) : targets[k] = t) - 1
                        ELSE cloneOrder]
    /\ clones = {}
    /\ cloneLimit = limit
    /\ nextClone = 1
    /\ threads = <<>>
    /\ threadsToStop = <<>>
    /\ vms = <<>>
    /\ activeThread = 0
    /\ redrawRequested = FALSE
    /\ turboModeEnabled = turbo
    /\ redrawHandler = handler
    /\ running = FALSE
    /\ fps = f
    /\ frameDuration = updateFrameDuration(f)
    /\ keyMap = [k \in Keys |-> FALSE]
    /\ elapsed = 0
    /\ numActiveThreads = 0
    /\ i = 0
    /\ pc = "idle"
    /\ hist = <<>>
    /\ draws = 0
    /\ passAfterRedraw = FALSE
    /\ stopSlot = 0
    /\ ranSince = {}
    /\ frontBackFront = NoCalls
    /\ loop = "none"
    /\ untilProjectStops = FALSE
    /\ m_stopEventLoop = FALSE
    /\ eventLoopMutex = "free"
    /\ hostCall = "none"
    /\ raced = FALSE
    /\ stopCalled = FALSE
    /\ stepsSinceStop = 0

\* the same; the blocks of the project are of no concern after compile()
EngineSetUp(targets, cloneOrder, scripts, f, turbo, handler, limit) ==
    /\ EngineConstructed
    /\ EngineState(targets, cloneOrder, scripts, f, turbo, handler, limit)
    /\ blocks = <<>>
    /\ idsResolved = TRUE

\* an engine with the stage and one sprite
EngineLoaded(scripts, f, turbo, handler, limit) ==
    EngineSetUp(<<Stage, Sprite1>>, 0, scripts, f, turbo, handler, limit)

InitVM ==
    /\ \E s \in Scripts : VMConstructed(s)
    /\ EngineLoaded(<<>>, 250, FALSE, FALSE, -1)

NextVM ==
    \/ ThreadRun
    \/ do_halt
    \/ do_const
    \/ do_forever_loop
    \/ do_repeat_loop
    \/ do_until_loop
    \/ do_begin_until_loop
    \/ do_loop_end
    \/ do_add
    \/ do_multiply
    \/ do_equals
    \/ do_read_var
    \/ do_change_var
    \/ do_break_atomic

SpecVM == InitVM /\ [][NextVM]_vars

InitEngine ==
    /\ VMConstructed([kind |-> "arith", n |-> 0])
    /\ \E f \in FpsValues, turbo \in BOOLEAN, handler \in BOOLEAN :
            EngineLoaded(ProjectScripts, f, turbo, handler, -1)

\* the number of VirtualMachines made so far
ThreadsCreated == Cardinality(DOMAIN hist)

NextEngine ==
    \/ start /\ ThreadsCreated' <= MaxThreads
    \/ \E sc \in Range(hatScripts) :
            /\ sc.id \in StartedScripts
            /\ hostStartScript(sc.id, sc.target)
            /\ ThreadsCreated' <= MaxThreads
    \/ step
    \/ whileTest
    \/ forThread
    \/ passEnd
    \/ render
    \/ \E end \in BOOLEAN, ms \in ElapsedValues : runReturns(end, ms)
    \/ \E end \in BOOLEAN, ms \in ElapsedValues : requestRedraw(end, ms)
    \/ \E name \in Broadcasts, end \in BOOLEAN, ms \in ElapsedValues :
            broadcast(name, end, ms) /\ ThreadsCreated' <= MaxThreads
    \/ \E sc \in Range(hatScripts), end \in BOOLEAN, ms \in ElapsedValues :
            /\ sc.id \in StartedScripts
            /\ startScript(sc.id, sc.target, end, ms)
            /\ ThreadsCreated' <= MaxThreads
    \/ \E end \in BOOLEAN, ms \in ElapsedValues :
            /\ nextClone <= MaxClones
            /\ initClone(end, ms)
            /\ ThreadsCreated' <= MaxThreads

SpecEngine == InitEngine /\ [][NextEngine]_vars

\* the key the host presses and releases
HatKeys == {"a"}

\* the host starts scripts, presses keys and makes clones, and calls no step()
NextHats ==
    \/ start /\ ThreadsCreated' <= MaxHatThreads
    \/ \E key \in HatKeys, pressed \in BOOLEAN :
            setKeyState(key, pressed) /\ ThreadsCreated' <= MaxHatThreads
    \/ \E sc \in Range(hatScripts) :
            /\ sc.id \in StartedScripts
            /\ hostStartScript(sc.id, sc.target)
            /\ ThreadsCreated' <= MaxHatThreads
    \/ /\ nextClone <= MaxClones
       /\ hostInitClone
       /\ ThreadsCreated' <= MaxHatThreads

InitHats ==
    /\ VMConstructed([kind |-> "arith", n |-> 0])
    /\ \E f \in FpsValues, turbo \in BOOLEAN, handler \in BOOLEAN, limit \in CloneLimits :
            EngineLoaded(ProjectScripts, f, turbo, handler, limit)

SpecHats == InitHats /\ [][NextHats]_vars

\* the host sends broadcasts, changes the backdrop, makes clones and calls step();
\* a script that runs calls nothing
NextBroadcast ==
    \/ \E b \in m_broadcasts :
            /\ ~b.isBackdropBroadcast
            /\ hostBroadcast(b.name)
            /\ ThreadsCreated' <= MaxBroadcastThreads
    \/ \E b \in m_broadcasts :
            /\ b.isBackdropBroadcast
            /\ startBackdropScripts(b.name)
            /\ ThreadsCreated' <= MaxBroadcastThreads
    \/ /\ nextClone <= MaxClones
       /\ hostInitClone
    \/ step
    \/ whileTest
    \/ forThread
    \/ passEnd
    \/ render
    \/ \E end \in BOOLEAN, ms \in ElapsedValues : runReturns(end, ms)

InitBroadcast ==
    /\ VMConstructed([kind |-> "arith", n |-> 0])
    /\ EngineSetUp(<<Stage, Sprite1, Sprite2>>, 0, BroadcastScripts, 250, FALSE, FALSE, -1)

SpecBroadcast == InitBroadcast /\ [][NextBroadcast]_vars

\* the host makes and removes clones, sets the clone limit, starts and stops the
\* project, and calls no step()
NextClones ==
    \/ /\ nextClone <= MaxInitClones
       /\ hostInitClone
    \/ \E clone \in ClonesMade : deinitClone(clone)
    \/ deleteClones
    \/ start /\ ThreadsCreated' <= MaxHatThreads
    \/ hostStop
    \/ \E limit \in LimitValues : setCloneLimit(limit)

InitClones ==
    /\ VMConstructed([kind |-> "arith", n |-> 0])
    /\ \E limit \in {-1, 2} :
            EngineSetUp(<<Stage, Sprite1, Sprite2>>, 0, CloneScripts, 250, FALSE, FALSE, limit)

SpecClones == InitClones /\ [][NextClones]_vars

\* the sprites and clones the host passes to the layer calls; NoTarget is nullptr
LayerSprites == {Sprite1, Sprite2, NoTarget} \cup ClonesMade

\* the host moves sprites between the layers and makes and removes clones; the
\* build with checked iterators differs from the other only where an iterator
\* leaves its range
NextLayers ==
    \/ \E sprite \in LayerSprites : moveSpriteToFront(sprite)
    \/ \E sprite \in LayerSprites : moveSpriteToBack(sprite)
    \/ \E sprite \in LayerSprites, layers \in LayerCounts, checked \in BOOLEAN :
            /\ checked => ~IteratorInRange(executableTargets, sprite, layers)
            /\ moveSpriteForwardLayers(sprite, layers, checked)
    \/ \E sprite \in LayerSprites, layers \in LayerCounts, checked \in BOOLEAN :
            /\ checked => ~IteratorInRange(executableTargets, sprite, -layers)
            /\ moveSpriteBackwardLayers(sprite, layers, checked)
    \/ \E sprite, other \in LayerSprites : moveSpriteBehindOther(sprite, other)
    \/ /\ nextClone <= MaxClones
       /\ hostInitClone
    \/ \E clone \in ClonesMade : deinitClone(clone)

\* a project without scripts, with one sprite or with two; the layer order a new
\* clone comes with is one of two
InitLayers ==
    /\ VMConstructed([kind |-> "arith", n |-> 0])
    /\ \E targets \in {<<Stage, Sprite1>>, <<Stage, Sprite1, Sprite2>>},
          cloneOrder \in {0, 1} :
            EngineSetUp(targets, cloneOrder, <<>>, 250, FALSE, FALSE, -1)

SpecLayers == InitLayers /\ [][NextLayers]_vars

\* the host starts the project and scripts and calls step(); a script that runs
\* calls nothing, stop() or startScript()
NextStop ==
    \/ start /\ ThreadsCreated' <= MaxStopThreads
    \/ \E sc \in Range(hatScripts) :
            /\ sc.id \in StartedScripts
            /\ hostStartScript(sc.id, sc.target)
            /\ ThreadsCreated' <= MaxStopThreads
    \/ step
    \/ whileTest
    \/ forThread
    \/ passEnd
    \/ render
    \/ \E end \in BOOLEAN, ms \in ElapsedValues : runReturns(end, ms)
    \/ \E ms \in ElapsedValues : stop(ms)
    \/ \E sc \in Range(hatScripts), end \in BOOLEAN, ms \in ElapsedValues :
            /\ sc.id \in StartedScripts
            /\ startScript(sc.id, sc.target, end, ms)
            /\ ThreadsCreated' <= MaxStopThreads

InitStop ==
    /\ VMConstructed([kind |-> "arith", n |-> 0])
    /\ EngineLoaded(ProjectScripts, 250, FALSE, FALSE, -1)

SpecStop == InitStop /\ [][NextStop]_vars

(***************************************************************************)
(* Properties of the virtual machine (checked under SpecVM).               *)
(***************************************************************************)
\* the outermost run() has returned from do_halt
Halted == vmpc = "ready" /\ runs >= 1 /\ m_bytecode[pos] = OP_HALT
v == variables[1]

\* C1 (as amended): after a run() that reaches HALT with an empty call stack
\* atEnd is true, and HALT leaves the registers as the script left them:
\* regCount is 0 for the scripts that free every register they push and 1 for
\* CONST 3, CONST 4, ADD, CONST 2, MUL, HALT, whose result nothing consumes.
C1_HaltSetsAtEnd ==
    Halted => /\ atEnd
              /\ callTree = <<>>
              /\ m_regCount = (IF script.kind = "arith" THEN 1 ELSE 0)

C1_Witness == Halted /\ script.kind = "arith" /\ regs = <<Num(14)>>

\* C1 as stated: after any run() that reaches HALT with an empty call stack,
\* atEnd is true and regCount is 0.
C1_Original == Halted => (atEnd /\ m_regCount = 0)

\* C2: REPEAT n { CHANGE_VAR v by 1 } without BREAK_ATOMIC, n >= 1, is finished by
\* the first run(): when it returns the thread is atEnd, v has grown by exactly n,
\* the loop stack is empty and the script never yielded.
C2_RepeatAtomic ==
    (script.kind = "repeat" /\ script.n >= 1 /\ vmpc = "ready" /\ runs >= 1)
        => (runs = 1 /\ atEnd /\ v = Num(script.n) /\ yields = 0 /\ loops = <<>>)

C2_Witness ==
    script.kind = "repeat" /\ script.n = 3 /\ vmpc = "ready" /\ atEnd /\ v = Num(3)

C5_Original == \A id \in DOMAIN hist : ~hist[id].ran

\* C5: a thread started while a pass is in progress is run in that same pass when
\* its slot comes after the running thread's (every pushed thread, and a thread
\* restarted in a later slot): the for loop reads m_threads.size() at every
\* iteration.  Only a thread restarted in the running thread's slot or an earlier
\* one is first run in a later pass.
C5_StartedThreads ==
    /\ \A id \in DOMAIN hist : hist[id].ran => (hist[id].born /\ hist[id].ahead)
    /\ pc = "while" =>
            \A k \in 1..Len(threads) :
                (hist[threads[k]].born /\ hist[threads[k]].ahead) => hist[threads[k]].ran

C5_Witness ==
    /\ pc = "while"
    /\ \E k \in 1..Len(threads) : hist[threads[k]].ran /\ ~vms[threads[k]].atEnd

\* C6: in a step the redraw handler, when one is set, is called exactly once, after
\* the last pass; it is not called while the passes go on, and between the call and
\* the next step() no thread is run.
C6_RedrawOnce ==
    [][/\ pc' \in {"while", "for", "running", "draw"} => draws' = 0
       /\ (pc = "draw" /\ pc' # "draw") =>
                (pc' = "idle" /\ draws' = (IF redrawHandler THEN 1 ELSE 0))
       /\ pc = "idle" => (pc' = "idle" /\ draws' = draws) \/ (pc' = "while" /\ draws' = 0)
       /\ pc' = "running" => pc \in {"for", "running"}]_vars

C6_Witness == pc = "idle" /\ draws = 1 /\ threads # <<>>

\* C7: with turbo mode off, no pass begins in a step after a script asked for a
\* redraw, and the pass in progress is run to its last thread; with turbo mode on,
\* stepThreads returns only when no thread is left, none was active in the last
\* pass, or no time is left.
C7_RedrawEndsStep ==
    [][/\ ~turboModeEnabled => ~passAfterRedraw'
       /\ (pc = "for" /\ pc' = "while") => i >= Len(threads)
       /\ (turboModeEnabled /\ pc = "while" /\ pc' = "draw") =>
                \/ threads = <<>>
                \/ numActiveThreads = 0
                \/ 4 * elapsed >= 3 * frameDuration]_vars

C7_Witness ==
    /\ pc = "while"
    /\ ~turboModeEnabled
    /\ redrawRequested
    /\ threads # <<>>
    /\ numActiveThreads > 0
    /\ TimeLeft(elapsed)

\* C8, as stated: a pass begins exactly when threads remain, one was active, redraw
\* does not block and elapsed <= 0.75 * 1000 / fps.
C8_Original ==
    [][pc = "while" /\ pc' # "while" =>
            (pc' = "for" <=> /\ threads # <<>>
                             /\ numActiveThreads > 0
                             /\ turboModeEnabled \/ ~redrawRequested
                             /\ 4 * elapsed * fps <= 3000)]_vars

\* C8: a pass begins exactly when threads remain, one was active in the pass before,
\* redraw does not block, and the elapsed milliseconds are less than 75% of the
\* frame duration, the frame duration being 1000 / fps cut to whole milliseconds:
\* at exactly 75% no pass begins.
C8_WorkTime ==
    [][pc = "while" /\ pc' # "while" =>
            (pc' = "for" <=> /\ threads # <<>>
                             /\ numActiveThreads > 0
                             /\ turboModeEnabled \/ ~redrawRequested
                             /\ 4 * elapsed < 3 * (1000 \div fps))]_vars

C8_Witness == pc = "for" /\ i = 0 /\ elapsed = 3 /\ fps = 180

(***************************************************************************)
(* Properties of the hats.                                                 *)
(***************************************************************************)
PairOf(vm) == <<vm.script, vm.target>>

\* the (script, target) pairs startHats(GreenFlag, {}, null) goes through
GreenFlagCalls == allScriptsByOpcodeDo("GreenFlag", NoTarget, executableTargets)

IsGreenFlagThread(id) ==
    \E n \in 1..Len(GreenFlagCalls) :
        PairOf(vms[id]) = <<GreenFlagCalls[n].script, GreenFlagCalls[n].target>>

\* every green flag script has a thread, as it has after startHats(GreenFlag, {}, null)
GreenFlagStarted ==
    \A n \in 1..Len(GreenFlagCalls) :
        SlotsOf(Now, GreenFlagCalls[n].script, GreenFlagCalls[n].target) # {}

FirstOfPair(k) ==
    k = Min(SlotsOf(Now, vms[threads[k]].script, vms[threads[k]].target))

\* the thread in slot k is replaced by a new thread of the same script and target
Replaced(k) ==
    /\ threads'[k] \notin Range(threads)
    /\ threads[k] \notin Range(threads')
    /\ vms'[threads'[k]] = NewVm(vms[threads[k]].script, vms[threads[k]].target)

\* C9, as stated: the second startHats(GreenFlag, {}, null) keeps the length of the
\* thread list and replaces every thread of a green flag script in its slot.
C9_Original ==
    [][(start /\ GreenFlagStarted) =>
            /\ Len(threads') = Len(threads)
            /\ \A k \in 1..Len(threads) :
                    IF IsGreenFlagThread(threads[k])
                    THEN Replaced(k)
                    ELSE threads'[k] = threads[k]]_vars

\* C9: a second startHats(GreenFlag, {}, null) with no step in between keeps the
\* length of the thread list; of the threads of one (target, green flag script)
\* pair it replaces the first in the list by a new thread in the same slot and
\* leaves the others in place; a thread that left the list never comes back.
C9_RestartInSlot ==
    [][/\ (start /\ GreenFlagStarted) =>
            /\ Len(threads') = Len(threads)
            /\ \A k \in 1..Len(threads) :
                    IF IsGreenFlagThread(threads[k]) /\ FirstOfPair(k)
                    THEN Replaced(k)
                    ELSE /\ threads'[k] = threads[k]
                         /\ vms'[threads[k]] = vms[threads[k]]
       /\ \A id \in DOMAIN hist : id \notin Range(threads) => id \notin Range(threads')]_vars

C9_Witness == threads = <<5, 2, 6>>

\* the scripts a press of key starts, were none of them running
KeyCalls(key) ==
    SelectSeq(allScriptsByOpcodeDo("KeyPressed", NoTarget, executableTargets),
              LAMBDA call : ScriptById(call.script).field \in {key, "any"})

NewThreads == [k \in 1..(Len(threads') - Len(threads)) |-> threads'[Len(threads) + k]]

\* the threads of the list stay in their slots
ThreadsKept == Len(threads') >= Len(threads) /\ SubSeq(threads', 1, Len(threads)) = threads

Started == DOMAIN hist' \ DOMAIN hist

TargetIndex(t) == CHOOSE k \in 1..Len(executableTargets) : executableTargets[k] = t
RegistrationIndex(scriptId) == CHOOSE k \in 1..Len(hatScripts) : hatScripts[k].id = scriptId

\* the hats of type hatType with the field value name
HatsWithField(hatType, name) ==
    {sc \in Range(hatScripts) : sc.hat = hatType /\ sc.field = name}

\* C11: a broadcast starts one thread for every "when I receive" hat of that
\* broadcast on every executable target (a clone has the hats of its root) and
\* none for a hat of another broadcast; of two threads it starts, the one started
\* first belongs to the target further back in the executable targets (so the
\* stage's threads are started last), or to the same target and the hat
\* registered first.
C11_StartOrder ==
    [][\A b \in m_broadcasts :
        (~b.isBackdropBroadcast /\ hostBroadcast(b.name)) =>
            /\ \A id \in Started :
                    /\ id \in Range(threads')
                    /\ vms'[id].target \in Range(executableTargets)
                    /\ ScriptById(vms'[id].script) \in HatsWithField("BroadcastReceived", b.name)
                    /\ ScriptById(vms'[id].script).target = cloneSprite(vms'[id].target)
            /\ \A t \in Range(executableTargets) :
                    \A sc \in HatsWithField("BroadcastReceived", b.name) :
                        sc.target = cloneSprite(t) =>
                            Cardinality({id \in Started : PairOf(vms'[id]) = <<sc.id, t>>}) = 1
            /\ \A x, y \in Started :
                    x < y =>
                        \/ TargetIndex(vms'[x].target) > TargetIndex(vms'[y].target)
                        \/ /\ vms'[x].target = vms'[y].target
                           /\ RegistrationIndex(vms'[x].script) < RegistrationIndex(vms'[y].script)]_vars

\* broadcast "foo" with a clone of Sprite1 in front: the clone's two threads, then
\* Sprite1's two, then the stage's
C11_Witness ==
    /\ executableTargets = <<Stage, Sprite1, Sprite2, "c1">>
    /\ threads = <<1, 2, 3, 4, 5>>
    /\ vms[1] = NewVm("fooS1a", "c1")
    /\ vms[2] = NewVm("fooS1b", "c1")
    /\ vms[3] = NewVm("fooS1a", Sprite1)
    /\ vms[4] = NewVm("fooS1b", Sprite1)
    /\ vms[5] = NewVm("fooStage", Stage)

\* the scripts that subscribed to the broadcast b
Subscribers(b) ==
    HatsWithField(IF b.isBackdropBroadcast THEN "BackdropChanged" ELSE "BroadcastReceived",
                  b.name)

C12_Original == cloneLimit >= 0 => Cardinality(clones) <= cloneLimit

\* C13: an initClone made when cloneCount() has reached a clone limit >= 0 changes
\* neither the clones, nor the executable targets, nor the threads, so that with
\* the limit 2 and 2 clones the call leaves 2 clones; every other initClone, and
\* so every one made with the limit -1, adds the clone.
C13_LimitRejects ==
    [][hostInitClone =>
        IF cloneLimit >= 0 /\ Cardinality(clones) >= cloneLimit
        THEN /\ UNCHANGED <<clones, executableTargets, threads, vms>>
             /\ Started = {}
        ELSE /\ CloneNames[nextClone] \in clones'
             /\ Cardinality(clones') = Cardinality(clones) + 1]_vars

\* three initClone calls with the limit 2: the third clone was rejected
C13_Witness ==
    /\ cloneLimit = 2
    /\ nextClone = 4
    /\ clones = {"c1", "c2"}
    /\ executableTargets = <<Stage, Sprite1, Sprite2, "c1", "c2">>
    /\ Len(threads) = 4

\* C14: an accepted initClone(clone) adds the clone to the clones, appends it to
\* the executable targets and starts exactly one thread for each CloneInit hat of
\* the clone's root sprite, with the clone as its target; it starts no other
\* thread and leaves the threads of the list as they were.
C14_CloneInit ==
    [][(hostInitClone /\ ~CloneLimitReached) =>
        LET clone == CloneNames[nextClone]
        IN /\ clones' = clones \cup {clone}
           /\ executableTargets' = Append(executableTargets, clone)
           /\ ThreadsKept
           /\ \A k \in 1..Len(threads) : vms'[threads[k]] = vms[threads[k]]
           /\ Range(NewThreads) = Started
           /\ \A id \in Started :
                    /\ vms'[id].target = clone
                    /\ ScriptById(vms'[id].script).hat = "CloneInit"
                    /\ ScriptById(vms'[id].script).target = cloneSprite(clone)
           /\ \A sc \in Range(hatScripts) :
                    (sc.hat = "CloneInit" /\ sc.target = cloneSprite(clone)) =>
                        Cardinality({id \in Started : vms'[id].script = sc.id}) = 1]_vars

\* two clones: the threads of the first clone's hats, then those of the second's
C14_Witness ==
    /\ clones = {"c1", "c2"}
    /\ executableTargets = <<Stage, Sprite1, Sprite2, "c1", "c2">>
    /\ threads = <<1, 2, 3, 4>>
    /\ vms[1] = NewVm("ciS1a", "c1")
    /\ vms[2] = NewVm("ciS1b", "c1")
    /\ vms[3] = NewVm("ciS1a", "c2")
    /\ vms[4] = NewVm("ciS1b", "c2")

\* the executable targets that are not t, in their order
Others(exe, t) == SelectSeq(exe, LAMBDA x : x # t)
NoClones(exe) == SelectSeq(exe, LAMBDA x : ~IsClone(x))

\* C15: deinitClone(clone) of a clone of the clone set takes exactly that clone
\* out of the set and out of the executable targets, keeps the order of the other
\* targets and lowers cloneCount() by one; deleteClones(), start() and stop()
\* leave no clone in the set and none in the executable targets, and keep the
\* stage and the sprites in their order.
C15_RemoveClones ==
    [][/\ \A clone \in clones :
            deinitClone(clone) =>
                /\ clones' = clones \ {clone}
                /\ Cardinality(clones') = Cardinality(clones) - 1
                /\ clone \notin Range(executableTargets')
                /\ executableTargets' = Others(executableTargets, clone)
       /\ (deleteClones \/ start \/ hostStop) =>
                /\ Cardinality(clones') = 0
                /\ \A t \in Range(executableTargets') : ~IsClone(t)
                /\ executableTargets' = NoClones(executableTargets)]_vars

\* with the limit 1: c1 was made and removed, and c2 was accepted after that
C15_Witness ==
    /\ cloneLimit = 1
    /\ nextClone = 3
    /\ clones = {"c2"}
    /\ executableTargets = <<Stage, Sprite1, Sprite2, "c2">>

(***************************************************************************)
(* Properties of the layers (checked under SpecLayers).                    *)
(***************************************************************************)
\* a call of one of the five layer functions that has returned: under SpecLayers
\* these are the steps that end at "idle" and leave the clones as they are (a
\* deinitClone of a clone that is not in the set changes nothing at all)
LayerCall == pc' = "idle" /\ UNCHANGED <<clones, nextClone>>

\* every sprite of the list has its position as its layer order
OrdersMatch(exe, order) == \A k \in 2..Len(exe) : order[exe[k]] = k - 1

\* C16, as stated: after any call of a layer function the stage is at index 0 and
\* the layer order of every sprite is its index.
C16_Original ==
    [][LayerCall => /\ executableTargets'[1] = Stage
                    /\ OrdersMatch(executableTargets', layerOrder')]_vars

\* C16: the stage is at index 0 of the executable targets in every state, and
\* after a call of a layer function that changes the list or a layer order the
\* layer order of every sprite is its index; a call that returns early (layers
\* == 0, sprite == other, a sprite that is not in the list, a list of at most two
\* targets) leaves the layer orders as they were, matching or not.
C16_LayerOrder ==
    [][/\ executableTargets'[1] = Stage
       /\ LayerCall =>
            \/ OrdersMatch(executableTargets', layerOrder')
            \/ UNCHANGED <<executableTargets, layerOrder>>]_vars

\* a clone was moved behind Sprite1 and the layer orders were set
C16_Witness ==
    /\ executableTargets = <<Stage, "c1", Sprite1, Sprite2>>
    /\ layerOrder["c1"] = 1
    /\ layerOrder[Sprite1] = 2
    /\ layerOrder[Sprite2] = 3

\* C17: after moveSpriteToFront(s), moveSpriteToBack(s), moveSpriteToFront(s),
\* made one after the other for a sprite s of the executable targets, s is the
\* last element of the list.
C17_FrontBackFront ==
    (frontBackFront.calls = 3 /\ frontBackFront.exe = executableTargets) =>
        executableTargets[Len(executableTargets)] = frontBackFront.sprite

\* the three calls were made for Sprite1, with Sprite2 and a clone in the list
C17_Witness ==
    /\ frontBackFront.calls = 3
    /\ frontBackFront.sprite = Sprite1
    /\ executableTargets = <<Stage, Sprite2, "c1", Sprite1>>

\* the position of sprite after the call
After(sprite) == Find(executableTargets', sprite)

C18_InRange ==
    [][\A sprite \in LayerSprites, n \in LayerCounts, checked \in BOOLEAN :
        LET it == Find(executableTargets, sprite)
            last == Len(executableTargets) - 1
        IN (sprite \in Range(executableTargets) /\ n > 0) =>
            /\ (it + n <= last + 1 /\ moveSpriteForwardLayers(sprite, n, checked)) =>
                    /\ After(sprite) = (IF it + n <= last THEN it + n ELSE last)
                    /\ Others(executableTargets', sprite) = Others(executableTargets, sprite)
            /\ (it - n >= 0 /\ moveSpriteBackwardLayers(sprite, n, checked)) =>
                    /\ After(sprite) = (IF it - n >= 1 THEN it - n ELSE 1)
                    /\ Others(executableTargets', sprite) = Others(executableTargets, sprite)]_vars

(***************************************************************************)
(* Properties of stop() (checked under SpecStop).                          *)
(***************************************************************************)
\* the end of the pass in which the active thread called stop(): threads of
\* m_threadsToStop are still in the list
StopPassEnds == passEnd /\ stopSlot # 0 /\ Range(threadsToStop) \cap Range(threads) # {}

MaxLoopThreads == 3

engineState ==
    <<hatScripts, executableTargets, clones, cloneLimit, nextClone, threads, threadsToStop,
      vms, activeThread, redrawRequested, turboModeEnabled, redrawHandler, running, fps,
      frameDuration, keyMap, elapsed, numActiveThreads, i, pc, hist, draws,
      passAfterRedraw>>

\* the host thread calls runEventLoop(): eventLoop() with untilProjectStops = false
runEventLoop ==
    /\ loop = "none"
    /\ pc = "idle"
    /\ loop' = "enter"
    /\ untilProjectStops' = FALSE
    /\ UNCHANGED <<m_stopEventLoop, eventLoopMutex, hostCall, raced, stopCalled,
                   stepsSinceStop>>
    /\ UNCHANGED <<vmVars, engineState, layerOrder, stopSlot, ranSince, frontBackFront,
                   callVars, restVars>>

\* the host thread calls run()
run ==
    /\ loop = "none"
    /\ pc = "idle"
    /\ loop' = "start"
    /\ untilProjectStops' = TRUE
    /\ UNCHANGED <<m_stopEventLoop, eventLoopMutex, hostCall, raced, stopCalled,
                   stepsSinceStop>>
    /\ UNCHANGED <<vmVars, engineState, layerOrder, stopSlot, ranSince, frontBackFront,
                   callVars, restVars>>

\* run(): start(), with m_eventLoopMutex locked while the scripts are started
runStarts ==
    /\ loop = "start"
    /\ eventLoopMutex = "free"
    /\ startCall
    /\ loop' = "enter"
    /\ raced' = (raced \/ hostCall # "none")
    /\ UNCHANGED <<untilProjectStops, m_stopEventLoop, eventLoopMutex, hostCall,
                   stopCalled, stepsSinceStop>>
    /\ UNCHANGED <<vmVars, layerOrder, stopSlot, ranSince, frontBackFront, callVars, restVars>>

\* eventLoop(): updateFrameDuration(); m_stopEventLoop = false;
eventLoopEnters ==
    /\ loop = "enter"
    /\ frameDuration' = updateFrameDuration(fps)
    /\ m_stopEventLoop' = FALSE
    /\ loop' = "tick"
    /\ UNCHANGED <<hatScripts, executableTargets, clones, cloneLimit, nextClone, threads,
                   threadsToStop, vms, activeThread, redrawRequested, turboModeEnabled,
                   redrawHandler, running, fps, keyMap, elapsed, numActiveThreads, i, pc,
                   hist, draws, passAfterRedraw>>
    /\ UNCHANGED <<untilProjectStops, eventLoopMutex, hostCall, raced, stopCalled,
                   stepsSinceStop>>
    /\ UNCHANGED <<vmVars, layerOrder, stopSlot, ranSince, frontBackFront, callVars, restVars>>

\* the head of the while loop: m_eventLoopMutex.lock(); step(), up to the first
\* test of stepThreads' while loop
eventLoopSteps ==
    /\ loop = "tick"
    /\ eventLoopMutex = "free"
    /\ eventLoopMutex' = "loop"
    /\ stepCall
    /\ loop' = "step"
    /\ raced' = (raced \/ hostCall # "none")
    /\ stepsSinceStop' = (IF stopCalled /\ stepsSinceStop < 2 THEN stepsSinceStop + 1
                          ELSE stepsSinceStop)
    /\ UNCHANGED <<untilProjectStops, m_stopEventLoop, hostCall, stopCalled>>
    /\ UNCHANGED <<vmVars, layerOrder, stopSlot, ranSince, frontBackFront, callVars, restVars>>

\* step() returns to the event loop
stepReturns ==
    /\ loop = "step"
    /\ renderCall
    /\ loop' = "threads"
    /\ UNCHANGED <<untilProjectStops, m_stopEventLoop, eventLoopMutex, hostCall, raced,
                   stopCalled, stepsSinceStop>>
    /\ UNCHANGED <<vmVars, layerOrder, stopSlot, ranSince, frontBackFront, callVars, restVars>>

\* a test that never ends the loop for an empty thread list
ProjectStopped_Never == FALSE

\* untilProjectStops && m_threads.empty()
ProjectStopped == untilProjectStops /\ threads = <<>>

\* if (untilProjectStops && m_threads.empty()) { m_eventLoopMutex.unlock(); break; }
threadsCheck ==
    /\ loop = "threads"
    /\ IF ProjectStopped
       THEN /\ eventLoopMutex' = "free"
            /\ loop' = "finalize"
       ELSE /\ loop' = "flag"
            /\ UNCHANGED eventLoopMutex
    /\ UNCHANGED <<untilProjectStops, m_stopEventLoop, hostCall, raced, stopCalled,
                   stepsSinceStop>>
    /\ UNCHANGED <<vmVars, engineState, layerOrder, stopSlot, ranSince, frontBackFront,
                   callVars, restVars>>

\* the test of m_stopEventLoop under m_stopEventLoopMutex; the mutex of the event
\* loop is unlocked before the break and before the sleep
flagCheck ==
    /\ loop = "flag"
    /\ eventLoopMutex' = "free"
    /\ loop' = (IF m_stopEventLoop THEN "finalize" ELSE "sleep")
    /\ UNCHANGED <<untilProjectStops, m_stopEventLoop, hostCall, raced, stopCalled,
                   stepsSinceStop>>
    /\ UNCHANGED <<vmVars, engineState, layerOrder, stopSlot, ranSince, frontBackFront,
                   callVars, restVars>>

\* m_clock->sleep(sleepTime), or no sleep
sleep ==
    /\ loop = "sleep"
    /\ loop' = "tick"
    /\ UNCHANGED <<untilProjectStops, m_stopEventLoop, eventLoopMutex, hostCall, raced,
                   stopCalled, stepsSinceStop>>
    /\ UNCHANGED <<vmVars, engineState, layerOrder, stopSlot, ranSince, frontBackFront,
                   callVars, restVars>>

\* m_threads.clear(); m_running = false;
finalize(ths) == [threads |-> <<>>, running |-> FALSE]

\* finalize() at the end of eventLoop() and at the end of run(); then the call of
\* the host returns
finalizes ==
    /\ loop \in {"finalize", "finalize2"}
    /\ eventLoopMutex = "free"
    /\ threads' = finalize(threads).threads
    /\ vms' = Destroy(vms, finalize(threads).threads, activeThread)
    /\ hist' = Forget(hist, finalize(threads).threads, activeThread)
    /\ running' = finalize(threads).running
    /\ redrawRequested' = FALSE
    /\ loop' = (IF loop = "finalize" /\ untilProjectStops THEN "finalize2" ELSE "returned")
    /\ raced' = (raced \/ hostCall # "none")
    /\ UNCHANGED <<hatScripts, executableTargets, clones, cloneLimit, nextClone,
                   threadsToStop, activeThread, turboModeEnabled, redrawHandler, fps,
                   frameDuration, keyMap, elapsed, numActiveThreads, i, pc, draws,
                   passAfterRedraw>>
    /\ UNCHANGED <<untilProjectStops, m_stopEventLoop, eventLoopMutex, hostCall,
                   stopCalled, stepsSinceStop>>
    /\ UNCHANGED <<vmVars, layerOrder, stopSlot, ranSince, frontBackFront, callVars, restVars>>

\* the second host thread calls stopEventLoop()
stopEventLoop ==
    /\ ~m_stopEventLoop
    /\ loop \notin {"returned", "crashed"}
    /\ m_stopEventLoop' = TRUE
    /\ stopCalled' = (stopCalled \/ loop # "none")
    /\ stepsSinceStop' = 0
    /\ UNCHANGED <<loop, untilProjectStops, eventLoopMutex, hostCall, raced>>
    /\ UNCHANGED <<vmVars, engineState, layerOrder, stopSlot, ranSince, frontBackFront,
                   callVars, restVars>>

\* the second host thread enters setKeyState(key, true) or broadcast(index); neither
\* locks a mutex
hostCallBegins(call) ==
    /\ hostCall = "none"
    /\ loop \notin {"returned", "crashed"}
    /\ hostCall' = call
    /\ raced' = (eventLoopMutex = "loop")
    /\ UNCHANGED <<loop, untilProjectStops, m_stopEventLoop, eventLoopMutex, stopCalled,
                   stepsSinceStop>>
    /\ UNCHANGED <<vmVars, engineState, layerOrder, stopSlot, ranSince, frontBackFront,
                   callVars, restVars>>

\* what the call in progress does to the engine
hostCallEffect ==
    IF hostCall = "setKeyState"
    THEN /\ keyMap' = [keyMap EXCEPT !["a"] = TRUE]
         /\ SetThreads(startHats(startHats(Now, "KeyPressed", <<"a">>, NoTarget,
                                           executableTargets),
                                 "KeyPressed", <<"any">>, NoTarget, executableTargets))
    ELSE /\ SetThreads(startHats(Now, "BroadcastReceived", <<"foo">>, NoTarget,
                                 executableTargets))
         /\ UNCHANGED keyMap

\* the call returns.  A call that overlapped a locked section of the event loop
\* used m_threads while the event loop used it: the thread list has the new
\* threads, or it is broken and the event loop crashes
hostCallEnds(broken) ==
    /\ hostCall # "none"
    /\ broken => raced
    /\ hostCall' = "none"
    /\ raced' = FALSE
    /\ IF broken
       THEN /\ loop' = "crashed"
            /\ UNCHANGED <<threads, vms, hist, keyMap>>
       ELSE /\ hostCallEffect
            /\ UNCHANGED loop
    /\ UNCHANGED <<hatScripts, executableTargets, clones, cloneLimit, nextClone,
                   threadsToStop, activeThread, redrawRequested, turboModeEnabled,
                   redrawHandler, running, fps, frameDuration, elapsed, numActiveThreads,
                   i, pc, draws, passAfterRedraw>>
    /\ UNCHANGED <<untilProjectStops, m_stopEventLoop, eventLoopMutex, stopCalled,
                   stepsSinceStop>>
    /\ UNCHANGED <<vmVars, layerOrder, stopSlot, ranSince, frontBackFront, callVars, restVars>>

\* the steps of the thread in eventLoop(), between the head of step() and its return
InStep ==
    \/ loop = "step" /\ whileTest
    \/ loop = "step" /\ forThread
    \/ loop = "step" /\ passEnd
    \/ \E end \in BOOLEAN, ms \in ElapsedValues : loop = "step" /\ runReturns(end, ms)

\* the steps of the thread that called run() or runEventLoop()
LoopThread ==
    \/ runStarts
    \/ eventLoopEnters
    \/ eventLoopSteps
    \/ InStep
    \/ stepReturns
    \/ threadsCheck
    \/ flagCheck
    \/ sleep
    \/ finalizes

\* the clock goes on while a thread runs
ClockAdvances ==
    /\ loop = "step"
    /\ \E end \in BOOLEAN, ms \in ElapsedValues : ms > elapsed /\ runReturns(end, ms)

\* before the call of run() or runEventLoop() the host presses a key; then the
\* event loop runs, and a second thread of the host stops it
NextStopLoop ==
    \/ /\ loop = "none"
       /\ setKeyState("a", TRUE)
       /\ ThreadsCreated' <= MaxLoopThreads
    \/ runEventLoop
    \/ run
    \/ LoopThread
    \/ stopEventLoop

\* the same, the second thread of the host also pressing a key and sending a
\* broadcast while the event loop runs
NextLoop ==
    \/ NextStopLoop
    \/ \E call \in {"setKeyState", "broadcast"} : hostCallBegins(call)
    \/ \E broken \in BOOLEAN : hostCallEnds(broken) /\ ThreadsCreated' <= MaxLoopThreads

InitLoop ==
    /\ VMConstructed([kind |-> "arith", n |-> 0])
    /\ \E f \in FpsValues : EngineLoaded(ProjectScripts, f, FALSE, FALSE, -1)

SpecLoop == InitLoop /\ [][NextLoop]_vars

\* the thread in the event loop is scheduled, and the steady clock advances
SpecStopLoop ==
    InitLoop /\ [][NextStopLoop]_vars /\ WF_vars(LoopThread) /\ SF_vars(ClockAdvances)

(***************************************************************************)
(* The event loop: claims C21 to C23.                                      *)
(***************************************************************************)
\* the positions inside the while loop of eventLoop()
InLoop == {"tick", "step", "threads", "flag", "sleep"}

\* C21, as claimed: a call of stopEventLoop() made at any point after run() or
\* runEventLoop() was invoked makes the event loop return
C21_Original == stopCalled ~> (loop = "returned")

\* the call that is lost: stopEventLoop() was called, eventLoop() cleared the flag
\* after it, and steps go on
C21_LostStop == stopCalled /\ ~m_stopEventLoop /\ loop = "step" /\ stepsSinceStop = 2

\* a call of stopEventLoop() made after eventLoop() cleared the flag makes the
\* event loop return
C21_AfterReset == (m_stopEventLoop /\ loop \in InLoop) ~> (loop = "returned")

\* and the event loop begins at most one step after such a call
C21_OneMoreStep == (m_stopEventLoop /\ loop \in InLoop) => stepsSinceStop <= 1

\* C22: run() goes to its return, without another step, as soon as a step ends
\* with an empty thread list; a call of run() or runEventLoop() that leaves the
\* while loop begins no step any more; and when it returns the thread list is
\* empty and isRunning() is false
C22_RunReturns ==
    [][/\ (loop = "threads" /\ loop' \notin {"threads", "crashed"}
            /\ untilProjectStops /\ threads = <<>>) => loop' = "finalize"
       /\ (loop \in {"finalize", "finalize2"} /\ loop' # "crashed") =>
                loop' \in {"finalize", "finalize2", "returned"}
       /\ (loop # "returned" /\ loop' = "returned") => (threads' = <<>> /\ ~running')]_vars

\* run() has returned because the two green flag threads it started came to their
\* end
C22_Witness ==
    /\ loop = "returned"
    /\ untilProjectStops
    /\ ~m_stopEventLoop
    /\ ThreadsCreated >= 2
    /\ threads = <<>>
    /\ ~running

\* C23, as claimed: a call of setKeyState or broadcast made by a host thread is
\* never in progress while the event loop holds m_eventLoopMutex
C23_Original == hostCall # "none" => eventLoopMutex # "loop"

(***************************************************************************)
(* stopScript(), stopTarget() and stopThread().                            *)
(***************************************************************************)
MaxKillThreads == 4

\* stopThread(thread) for every thread of ids: thread->kill() sets the flag that
\* makes the next dispatch of run() a HALT with an empty call stack
stopThread(vm, ids) ==
    [id \in DOMAIN vm |-> IF id \in ids THEN [vm[id] EXCEPT !.killed = TRUE] ELSE vm[id]]

\* a stopTarget that forgets the excepted script
StopTargetThreads_NoExcept(target, exceptScript) ==
    {id \in Range(threads) : vms[id].target = target}

\* stopTarget: (thread->target() == target) && (thread.get() != exceptScript)
StopTargetThreads(target, exceptScript) ==
    {id \in Range(threads) : vms[id].target = target /\ id # exceptScript}

\* the running script kills the threads ids; a script that killed its own thread
\* is at its end when run() returns
KillsInRun(ids, end, ms) ==
    /\ pc = "running"
    /\ ~vms[activeThread].killed
    /\ activeThread \in ids => end
    /\ RunEnds([Now EXCEPT !.vms = stopThread(vms, ids)], end, ms)
    /\ UNCHANGED <<hatScripts, executableTargets, clones, cloneLimit, nextClone,
                   threadsToStop, activeThread, redrawRequested, turboModeEnabled,
                   redrawHandler, running, fps, frameDuration, keyMap, draws,
                   passAfterRedraw>>
    /\ UNCHANGED <<vmVars, extVars>>

\* the script calls stopTarget(target, exceptScript); exceptScript 0 is nullptr
stopTarget(target, exceptScript, end, ms) ==
    KillsInRun(StopTargetThreads(target, exceptScript), end, ms)

\* the script calls stopScript(vm)
stopScript(vm, end, ms) == KillsInRun({vm}, end, ms)

\* the host calls stopTarget(target, nullptr) between two steps
hostStopTarget(target) ==
    /\ pc = "idle"
    /\ vms' = stopThread(vms, StopTargetThreads(target, 0))
    /\ UNCHANGED <<hatScripts, executableTargets, clones, cloneLimit, nextClone, threads,
                   threadsToStop, activeThread, redrawRequested, turboModeEnabled,
                   redrawHandler, running, fps, frameDuration, keyMap, elapsed,
                   numActiveThreads, i, pc, hist, draws, passAfterRedraw>>
    /\ UNCHANGED <<vmVars, extVars>>

\* run() of a thread that was killed: the first dispatch is a HALT
killedRunReturns(ms) ==
    /\ pc = "running"
    /\ vms[activeThread].killed
    /\ RunEnds(Now, killed, ms)
    /\ UNCHANGED <<hatScripts, executableTargets, clones, cloneLimit, nextClone,
                   threadsToStop, activeThread, redrawRequested, turboModeEnabled,
                   redrawHandler, running, fps, frameDuration, keyMap, draws,
                   passAfterRedraw>>
    /\ UNCHANGED <<vmVars, extVars>>

\* the targets a script passes to stopTarget
KillTargets == {Stage, Sprite1}

\* the host starts the project, presses a key and calls step() and stopTarget(); a
\* script that runs calls nothing, stopTarget() or stopScript()
NextKill ==
    \/ start /\ ThreadsCreated' <= MaxKillThreads
    \/ setKeyState("a", TRUE) /\ ThreadsCreated' <= MaxKillThreads
    \/ \E target \in KillTargets : hostStopTarget(target)
    \/ step
    \/ whileTest
    \/ forThread
    \/ passEnd
    \/ render
    \/ \E end \in BOOLEAN, ms \in ElapsedValues :
            pc = "running" /\ ~vms[activeThread].killed /\ runReturns(end, ms)
    \/ \E ms \in ElapsedValues : killedRunReturns(ms)
    \/ \E target \in KillTargets, own \in BOOLEAN, end \in BOOLEAN, ms \in ElapsedValues :
            stopTarget(target, IF own THEN activeThread ELSE 0, end, ms)
    \/ \E vm \in Range(threads), end \in BOOLEAN, ms \in ElapsedValues :
            stopScript(vm, end, ms)

InitKill ==
    /\ VMConstructed([kind |-> "arith", n |-> 0])
    /\ EngineLoaded(ProjectScripts, 250, FALSE, FALSE, -1)

SpecKill == InitKill /\ [][NextKill]_vars

\* the threads of the list that were killed and have not come to their end
KilledThreads == {id \in Range(threads) : vms[id].killed /\ ~vms[id].atEnd}

\* the step is the return of a run() of the active thread
RunReturned == pc = "running" /\ pc' = "for"

MaxKeyThreads == 4

\* the "when key pressed" scripts of a project with a stage and one sprite
KeyScripts ==
    <<[id |-> "keyS1", target |-> Sprite1, hat |-> "KeyPressed", field |-> "a"],
      [id |-> "keyStage", target |-> Stage, hat |-> "KeyPressed", field |-> "any"],
      [id |-> "keyS1b", target |-> Sprite1, hat |-> "KeyPressed", field |-> "b"]>>

\* the host reports key states and calls step(); a script that runs calls nothing
NextKeys ==
    \/ \E key \in Keys, pressed \in BOOLEAN :
            setKeyState(key, pressed) /\ ThreadsCreated' <= MaxKeyThreads
    \/ step
    \/ whileTest
    \/ forThread
    \/ passEnd
    \/ render
    \/ \E end \in BOOLEAN, ms \in ElapsedValues : runReturns(end, ms)

InitKeys ==
    /\ VMConstructed([kind |-> "arith", n |-> 0])
    /\ EngineLoaded(KeyScripts, 250, FALSE, FALSE, -1)

SpecKeys == InitKeys /\ [][NextKeys]_vars

\* the script sc of its target has a thread in the list that is not at its end
HasRunningThread(sc) ==
    \E id \in Range(threads) : PairOf(vms[id]) = <<sc.id, sc.target>> /\ ~vms[id].atEnd

\* C25, as claimed: setKeyState starts threads only when the key goes from released
\* to pressed; a release, and a key reported pressed that was pressed already,
\* start no thread
C25_Original ==
    [][\A key \in Keys, pressed \in BOOLEAN :
            setKeyState(key, pressed) => (Started # {} => (pressed /\ ~keyMap[key]))]_vars

\* C25, amended: every setKeyState(key, true), whether the key was pressed before or
\* not, starts the KeyPressed hats whose key field is key or "any" and that have no
\* unfinished thread; setKeyState(key, false) starts no thread; the threads of the
\* list stay in their slots
C25_KeyHats ==
    [][\A key \in Keys, pressed \in BOOLEAN :
            setKeyState(key, pressed) =>
                /\ keyMap'[key] = pressed
                /\ ThreadsKept
                /\ {PairOf(vms'[id]) : id \in Started} =
                        (IF pressed
                         THEN {<<sc.id, sc.target>> :
                                 sc \in {h \in HatsWithField("KeyPressed", key)
                                                \cup HatsWithField("KeyPressed", "any") :
                                            ~HasRunningThread(h)}}
                         ELSE {})]_vars

\* key "a" was reported pressed twice without a release between, and both reports
\* started the threads of the hats of "a" and of "any"
C25_Witness ==
    /\ pc = "idle"
    /\ keyMap["a"]
    /\ ~keyMap["b"]
    /\ ThreadsCreated = 4
    /\ Len(threads) = 2
    /\ \A id \in DOMAIN vms : vms[id].script # "keyS1b"


(***************************************************************************)
(* The VirtualMachine on the scripts with branches, primitives that stop,  *)
(* procedures and lists, and on REPEAT with a count below zero.            *)
(***************************************************************************)
\* how often the loop of a negative count goes round in the model
MaxIterations == 3

InitFlow ==
    /\ \E s \in FlowScripts : VMConstructed(s)
    /\ EngineLoaded(<<>>, 250, FALSE, FALSE, -1)

NextFlow ==
    \/ ThreadRun
    \/ do_halt
    \/ do_const
    \/ do_repeat_loop
    \/ loops # <<>> /\ loops[Len(loops)].index < MaxIterations /\ do_loop_end
    \/ do_loop_end_empty
    \/ do_add
    \/ do_change_var
    \/ do_break_atomic
    \/ do_if
    \/ do_else
    \/ do_endif
    \/ do_exec
    \/ do_init_procedure
    \/ do_call_procedure
    \/ do_add_arg
    \/ do_read_arg
    \/ do_list_append
    \/ do_list_del

SpecFlow == InitFlow /\ [][NextFlow]_vars

(***************************************************************************)
(* C26: when a primitive called by EXEC sets stop, run() returns without   *)
(* executing another opcode, and afterwards the loop stack, the call       *)
(* stack, the argument frames and the registers are all empty.             *)
(***************************************************************************)
C26_Original ==
    [][ExecStops =>
            /\ vmpc' = "ready"
            /\ loops' = <<>>
            /\ callTree' = <<>>
            /\ procedureArgTree' = <<>>
            /\ regs' = <<>>]_vars

\* what the stop does clear: run() returns, the call stack and the argument frames
\* are empty and no frame is pointed to
C26_CallStateCleared ==
    [][ExecStops =>
            /\ vmpc' = "ready"
            /\ savedPos' = pos + 2
            /\ callTree' = <<>>
            /\ procedureArgTree' = <<>>
            /\ procedureArgs' = 0
            /\ nextProcedureArgs' = 0
            /\ loops' = loops]_vars

\* a stop inside a loop has returned and the Loop is still on m_loops
C26_LoopLeft ==
    /\ script.kind = "exec_loop"
    /\ vmpc = "ready"
    /\ runs >= 1
    /\ ~atEnd
    /\ loops # <<>>

(***************************************************************************)
(* C27: REPEAT_LOOP runs its body zero times for every count <= 0, zero    *)
(* and negative: no Loop is pushed, nothing of the body runs (v stays 0)   *)
(* and control goes on after the LOOP_END of this REPEAT_LOOP, to the end  *)
(* of the script, also when the body holds a nested loop.                  *)
(***************************************************************************)
C27_Original ==
    (script.kind \in {"repeat", "nested"} /\ script.n <= 0) =>
        /\ loops = <<>>
        /\ variables[1] = Num(0)
        /\ vmpc # "crashed"

\* a count of zero with no loop in the body does skip the body
C27_ZeroFlat ==
    (script.kind = "repeat" /\ script.n = 0) =>
        /\ loops = <<>>
        /\ variables[1] = Num(0)
        /\ vmpc # "crashed"

\* the body has run for a negative count
C27_NegativeRuns ==
    /\ script.kind = "repeat"
    /\ script.n < 0
    /\ variables[1] # Num(0)

\* the rest of the outer body has run for a count of zero
C27_NestedRuns ==
    /\ script.kind = "nested"
    /\ script.n = 0
    /\ variables[1] # Num(0)

(***************************************************************************)
(* C28: IF pops one register and selects the right branch of its own       *)
(* IF...ELSE...ENDIF block, also when a branch holds a nested IF block: at *)
(* the end of each script v is the sum of the branches that had to run     *)
(* and no register is left.                                                *)
(***************************************************************************)
\* v at the end of an IF script when every IF selects the branch of its own block
IfExpected(s) ==
    CASE s.kind = "if_else" -> IF s.c THEN 1 ELSE 2
      [] s.kind = "if_then_if" -> IF s.c THEN (IF s.d THEN 1 ELSE 2) + 4 ELSE 8
      [] s.kind = "if_else_if" -> IF s.c THEN 1 ELSE (IF s.d THEN 2 ELSE 0) + 4

C28_Original ==
    (script.kind \in IfKinds /\ atEnd) =>
        /\ variables[1] = Num(IfExpected(script))
        /\ regs = <<>>

\* a block with no IF inside its branches selects the right branch
C28_Flat ==
    (script.kind = "if_else" /\ atEnd) =>
        /\ variables[1] = Num(IfExpected(script))
        /\ regs = <<>>

\* a false IF with a nested block in its true branch has run the ELSE branch of the
\* nested block
C28_InnerElseRuns ==
    /\ script.kind = "if_then_if"
    /\ ~script.c
    /\ atEnd
    /\ variables[1] = Num(6)

\* a true IF with a nested block in its ELSE branch has run the rest of the ELSE branch
C28_ElseTailRuns ==
    /\ script.kind = "if_else_if"
    /\ script.c
    /\ atEnd
    /\ variables[1] = Num(5)

(***************************************************************************)
(* C29: a procedure that returns through HALT with a non-empty call stack  *)
(* resumes behind the CALL_PROCEDURE that entered it, and READ_ARG reads   *)
(* the caller's argument frame again (no frame at the top level); inside   *)
(* the callee READ_ARG i reads the i-th value ADD_ARG added for that call. *)
(* This holds for nested and recursive calls: every script with            *)
(* procedures ends with v the sum of the arguments its READ_ARGs had to    *)
(* read.                                                                   *)
(***************************************************************************)
\* the step of do_halt that returns from a procedure
HaltReturns ==
    /\ do_halt
    /\ callTree # <<>>

\* v at the end of a script with procedures
ProcExpected(s) ==
    IF s.kind = "proc_nested" THEN 1 + 8 + 1 + 32 ELSE s.n * (s.n + 1)

\* outside the preparation of a call there is one argument frame for each call on the
\* call stack and READ_ARG reads the frame of the innermost call
FramesMatchCalls ==
    (vmpc = "dispatch" /\ nextProcedureArgs = 0) =>
        /\ Len(procedureArgTree) = Len(callTree)
        /\ procedureArgs = Len(callTree)

C29_Procedures ==
    /\ [](script.kind \in {"proc_nested", "proc_rec"} => FramesMatchCalls)
    /\ []((script.kind \in {"proc_nested", "proc_rec"} /\ atEnd) =>
                variables[1] = Num(ProcExpected(script)))
    /\ [][HaltReturns =>
            /\ pos' = callTree[Len(callTree)]
            /\ m_bytecode[pos' - 1] = OP_CALL_PROCEDURE
            /\ callTree' = SubSeq(callTree, 1, Len(callTree) - 1)
            /\ procedureArgs' = Len(callTree')
            /\ Len(procedureArgTree') = Len(callTree')]_vars

\* the recursive script has ended after three calls, each of which read its own argument
\* before and after the call it made
C29_Witness ==
    /\ script.kind = "proc_rec"
    /\ script.n = 2
    /\ atEnd
    /\ callTree = <<>>
    /\ variables[1] = Num(6)

\* the script with the nested call has ended
C29_NestedEnds ==
    /\ script.kind = "proc_nested"
    /\ atEnd
    /\ variables[1] = Num(42)

(***************************************************************************)
(* C30: LIST_APPEND of any value followed by LIST_DEL with the index       *)
(* "last", or with the number that is the new length, leaves the list as   *)
(* it was before the append, for every initial list, the empty one         *)
(* included.                                                               *)
(***************************************************************************)
\* the index of the script's LIST_DEL names the item its LIST_APPEND added
DeletesAppended(s) ==
    IF isString(s.index) THEN s.index.v = "last" ELSE s.index.v = Len(s.init) + 1

C30_AppendThenDelete ==
    (script.kind = "list" /\ atEnd /\ DeletesAppended(script)) =>
        /\ Len(lists[1]) = Len(script.init)
        /\ \A item \in 1..Len(script.init) :
                /\ lists[1][item].t = script.init[item].t
                /\ lists[1][item].v = script.init[item].v

\* a value was appended to a list of two items and deleted by its number, 3
C30_Witness ==
    /\ script.kind = "list"
    /\ atEnd
    /\ Len(script.init) = MaxListLen
    /\ ~isString(script.index)
    /\ script.index.v = Len(script.init) + 1
    /\ Len(lists[1]) = Len(script.init)

\* the same on the empty list, deleted as "last"
C30_EmptyWitness ==
    /\ script.kind = "list"
    /\ atEnd
    /\ script.init = <<>>
    /\ isString(script.index)
    /\ script.index.v = "last"
    /\ lists[1] = <<>>

(***************************************************************************)
(* The host starts the project, makes clones, steps it and stops it        *)
(* between two steps.                                                      *)
(***************************************************************************)
\* number of VirtualMachine objects (threads) made at most under SpecHostStop
MaxHostStopThreads == 4

NextHostStop ==
    \/ start /\ ThreadsCreated' <= MaxHostStopThreads
    \/ /\ nextClone <= MaxClones
       /\ hostInitClone
       /\ ThreadsCreated' <= MaxHostStopThreads
    \/ hostStop
    \/ step
    \/ whileTest
    \/ forThread
    \/ passEnd
    \/ render
    \/ \E end \in BOOLEAN, ms \in ElapsedValues : runReturns(end, ms)

InitHostStop ==
    /\ VMConstructed([kind |-> "arith", n |-> 0])
    /\ \E handler \in BOOLEAN : EngineLoaded(ProjectScripts, 250, FALSE, handler, -1)

SpecHostStop == InitHostStop /\ [][NextHostStop]_vars

(***************************************************************************)
(* C31: stop() called by the host while no thread is active deletes all    *)
(* clones, empties the thread list and sets isRunning() to false, so the   *)
(* next step runs no script: no script runs while the thread list is       *)
(* empty, and a step that begins with an empty list keeps it empty.        *)
(***************************************************************************)
C31_HostStop ==
    /\ [][hostStop =>
            /\ activeThread = 0
            /\ clones' = {}
            /\ \A t \in Range(executableTargets') : ~IsClone(t)
            /\ threads' = <<>>
            /\ ~running']_vars
    /\ [](threads = <<>> => pc # "running")
    /\ [][(threads = <<>> /\ pc # "idle") => threads' = <<>>]_vars

\* before any step was made (the redraw handler was never called) three threads
\* and a clone are gone: the host has stopped the project
C31_Witness ==
    /\ pc = "idle"
    /\ redrawHandler
    /\ draws = 0
    /\ threads = <<>>
    /\ ~running
    /\ clones = {}
    /\ nextClone > 1
    /\ ThreadsCreated >= 3

(***************************************************************************)
(* A running script calls stop(); the threads that are left start scripts  *)
(* and send broadcasts in their last run.                                  *)
(***************************************************************************)
\* number of VirtualMachine objects (threads) made at most under SpecRestart
MaxRestartThreads == 4

NextRestart ==
    \/ start /\ ThreadsCreated' <= MaxRestartThreads
    \/ hostBroadcast("foo") /\ ThreadsCreated' <= MaxRestartThreads
    \/ step
    \/ whileTest
    \/ forThread
    \/ passEnd
    \/ render
    \/ \E end \in BOOLEAN, ms \in ElapsedValues : runReturns(end, ms)
    \/ \E ms \in ElapsedValues : stop(ms)
    \/ \E end \in BOOLEAN, ms \in ElapsedValues :
            /\ broadcast("foo", end, ms)
            /\ ThreadsCreated' <= MaxRestartThreads
    \/ \E sc \in Range(hatScripts), end \in BOOLEAN, ms \in ElapsedValues :
            /\ sc.id \in StartedScripts
            /\ startScript(sc.id, sc.target, end, ms)
            /\ ThreadsCreated' <= MaxRestartThreads

SpecRestart == InitStop /\ [][NextRestart]_vars

(***************************************************************************)
(* C32: a thread started after the active thread called stop(), by one of  *)
(* the remaining threads in its last run, is not removed by that stop(),   *)
(* also when it restarts a thread that was scheduled for removal: it is    *)
(* not among the threads to stop, it stays in the list at the end of the   *)
(* pass and at the next step unless it is finished, and every pass that    *)
(* comes to its slot runs it.                                              *)
(***************************************************************************)
\* the threads in the list that the last stop() did not schedule for removal
NotScheduled == Range(threads) \ Range(threadsToStop)

C32_StartedAfterStop ==
    [][/\ \A id \in Range(threads') \ Range(threads) : id \notin Range(threadsToStop')
       /\ (\E end \in BOOLEAN, ms \in ElapsedValues : broadcast("foo", end, ms)) =>
            \A k \in 1..Len(threads') :
                vms'[threads'[k]].script = "bcS1" =>
                    /\ threads'[k] \notin Range(threadsToStop')
                    /\ ~vms'[threads'[k]].atEnd
       /\ (passEnd \/ step) =>
            \A id \in NotScheduled : ~vms[id].atEnd => id \in Range(threads')
       /\ (forThread /\ threads[i + 1] \in NotScheduled /\ ~vms[threads[i + 1]].atEnd) =>
            /\ pc' = "running"
            /\ activeThread' = threads[i + 1]]_vars

\* in the pass of the stop() the thread of a slot that was scheduled for removal has
\* been restarted: the slot holds a new thread
C32_Witness ==
    /\ pc = "for"
    /\ stopSlot # 0
    /\ Len(threads) >= Len(threadsToStop)
    /\ \E k \in 1..Len(threadsToStop) :
            /\ threads[k] # threadsToStop[k]
            /\ threads[k] \notin Range(threadsToStop)
            /\ k # stopSlot
    /\ \E k \in 1..Len(threadsToStop) : threadsToStop[k] \in Range(threads)

\* a later pass runs a thread that was started after the stop(), every thread the
\* stop() scheduled being gone
C32_RunsLater ==
    /\ pc = "running"
    /\ stopSlot # 0
    /\ threadsToStop # <<>>
    /\ activeThread \in NotScheduled
    /\ Range(threads) \cap Range(threadsToStop) = {}
    /\ vms[activeThread].script = "bcS1"

(***************************************************************************)
(* C33: after moveSpriteBehindOther(s, o), s and o being two different     *)
(* sprites of the executable targets, s is at the index just below o's,    *)
(* whether it was in front of o or behind it, s is not at index 0, and the *)
(* other targets keep their order.  Checked for the call on every list the *)
(* calls of the host lead to, moveSpriteBehindOther among them.            *)
(***************************************************************************)
\* the list exe is what moveSpriteBehindOther(sprite, other) has to leave of the list
\* before
IsBehind(exe, before, sprite, other) ==
    /\ Find(exe, sprite) = Find(exe, other) - 1
    /\ Find(exe, sprite) >= 1
    /\ Others(exe, sprite) = Others(before, sprite)
    /\ Range(exe) = Range(before)
    /\ Len(exe) = Len(before)

\* the sprites of the executable targets
SpritesIn(exe) == Range(exe) \cap LayerSprites

C33_BehindOther ==
    \A sprite, other \in SpritesIn(executableTargets) :
        sprite # other =>
            IsBehind(BehindOther(executableTargets, sprite, other).exe,
                     executableTargets, sprite, other)

\* no clone was made and a layer call has set the layer orders: Sprite2, in front of
\* Sprite1 at first, is behind it
C33_Witness ==
    /\ executableTargets = <<Stage, Sprite2, Sprite1>>
    /\ nextClone = 1
    /\ frontBackFront = NoCalls
    /\ layerOrder[Sprite2] = 1
    /\ layerOrder[Sprite1] = 2

\* a clone that was behind Sprite1 and Sprite2 can be moved up behind Sprite2
C33_FromBehind ==
    /\ Len(executableTargets) = 4
    /\ \E clone \in clones :
            /\ Find(executableTargets, clone) = 1
            /\ Find(executableTargets, Sprite2) = 3
            /\ BehindOther(executableTargets, clone, Sprite2).exe
                    = <<Stage, Sprite1, clone, Sprite2>>

(***************************************************************************)
(* The function table: functionIndex().  The compiler of a block section   *)
(* asks for the index of each function it emits an EXEC for.               *)
(***************************************************************************)
\* a functionIndex that appends without looking the function up
functionIndex_Push(fns, f) == [functions |-> Append(fns, f), index |-> Len(fns)]

\* functionIndex(f): std::find, else push_back; the table after the call and the
\* index returned
functionIndex(fns, f) ==
    IF \E k \in 1..Len(fns) : fns[k] = f
    THEN [functions |-> fns,
          index |-> Min({k \in 1..Len(fns) : fns[k] = f}) - 1]
    ELSE [functions |-> Append(fns, f), index |-> Len(Append(fns, f)) - 1]

\* a call of functionIndex(f)
functionIndexCalled(f) ==
    /\ m_functions' = functionIndex(m_functions, f).functions
    /\ lastCall' = [f |-> f, index |-> functionIndex(m_functions, f).index]
    /\ firstIndex' = (IF firstIndex[f] = -1
                      THEN [firstIndex EXCEPT ![f] = functionIndex(m_functions, f).index]
                      ELSE firstIndex)
    /\ UNCHANGED <<blocks, idsResolved, stopEventLoopMutex>>
    /\ UNCHANGED <<vmVars, engVars, layerOrder, stopSlot, ranSince, frontBackFront,
                   loopVars, callVars>>

NextFunctions == \E f \in BlockFuncs : functionIndexCalled(f)

InitFunctions ==
    /\ VMConstructed([kind |-> "arith", n |-> 0])
    /\ EngineLoaded(<<>>, 250, FALSE, FALSE, -1)

SpecFunctions == InitFunctions /\ [][NextFunctions]_vars

(***************************************************************************)
(* C34: functionIndex(f) returns the index it returned for f the first     *)
(* time, distinct functions have distinct indices, an index handed out     *)
(* keeps naming its function, and no function is in the table twice.       *)
(***************************************************************************)
C34_FunctionIndex ==
    /\ lastCall # NoCall => lastCall.index = firstIndex[lastCall.f]
    /\ \A f, g \in BlockFuncs :
            (f # g /\ firstIndex[f] # -1) => firstIndex[f] # firstIndex[g]
    /\ \A f \in BlockFuncs :
            firstIndex[f] # -1 =>
                /\ firstIndex[f] + 1 \in 1..Len(m_functions)
                /\ m_functions[firstIndex[f] + 1] = f
    /\ \A k, j \in 1..Len(m_functions) : k # j => m_functions[k] # m_functions[j]

\* f1 was registered second; after two more functions were registered a call for
\* f1 returned index 1 again
C34_Witness ==
    /\ m_functions = <<"f2", "f1", "f3", "f4">>
    /\ lastCall = [f |-> "f1", index |-> 1]

(***************************************************************************)
(* Loading a project: resolveIds() and the lookups getBlock(),             *)
(* getVariable(), getList(), getBroadcast() and getEntity().  The project  *)
(* has the blocks b1 and b2, the variable v1, the list l1 and the          *)
(* broadcast m1; b1 has one input and one field.                           *)
(***************************************************************************)
BlockIds == {"b1", "b2"}
VariableIds == {"v1"}
ListIds == {"l1"}
BroadcastIds == {"m1"}

\* the IDs a block reference of b1 holds: none, a block, an ID of no entity
BlockRefs == {"", "b2", "zz"}

\* the IDs a value of b1 holds: none, an entity of each kind, an ID of no entity
ValueRefs == {"", "b2", "v1", "l1", "m1", "zz"}

nullptr == [kind |-> "null", id |-> ""]

Entity(kind, id) == [kind |-> kind, id |-> id]

\* getBlock(id), getVariable(id), getList(id), getBroadcast(id): nullptr for an
\* empty ID and for an ID that no entity of the kind has
getBlock(id) == IF id # "" /\ id \in BlockIds THEN Entity("Block", id) ELSE nullptr
getVariable(id) == IF id # "" /\ id \in VariableIds THEN Entity("Variable", id) ELSE nullptr
getList(id) == IF id # "" /\ id \in ListIds THEN Entity("List", id) ELSE nullptr
getBroadcast(id) ==
    IF id # "" /\ id \in BroadcastIds THEN Entity("Broadcast", id) ELSE nullptr

\* getEntity(id): blocks, then variables, then lists, then broadcasts
getEntity(id) ==
    IF getBlock(id) # nullptr THEN getBlock(id)
    ELSE IF getVariable(id) # nullptr THEN getVariable(id)
    ELSE IF getList(id) # nullptr THEN getList(id)
    ELSE IF getBroadcast(id) # nullptr THEN getBroadcast(id)
    ELSE nullptr

\* a block as the project file gives it: IDs set, no pointer set
LoadedBlock(id, nextId, parentId, inputs, fields) ==
    [id |-> id, nextId |-> nextId, next |-> nullptr, parentId |-> parentId,
     parent |-> nullptr, inputs |-> inputs, fields |-> fields]

LoadedInput(valueBlockId, primaryId, secondaryId) ==
    [valueBlockId |-> valueBlockId, valueBlock |-> nullptr,
     primaryValueId |-> primaryId, primaryValuePtr |-> nullptr,
     secondaryValueId |-> secondaryId, secondaryValuePtr |-> nullptr]

LoadedField(valueId) == [valueId |-> valueId, valuePtr |-> nullptr]

\* the loop body of resolveIds() for one input
resolveInput(input) ==
    [input EXCEPT !.valueBlock = getBlock(input.valueBlockId),
                  !.primaryValuePtr = getEntity(input.primaryValueId),
                  !.secondaryValuePtr = getEntity(input.primaryValueId)]

\* the loop body of resolveIds() for one field
resolveField(field) == [field EXCEPT !.valuePtr = getEntity(field.valueId)]

\* the loop body of resolveIds() for one block
resolveBlock(block) ==
    [block EXCEPT !.next = getBlock(block.nextId),
                  !.parent = getBlock(block.parentId),
                  !.inputs = [k \in DOMAIN block.inputs |-> resolveInput(block.inputs[k])],
                  !.fields = [k \in DOMAIN block.fields |-> resolveField(block.fields[k])]]

\* resolveIds()
resolveIds ==
    /\ ~idsResolved
    /\ blocks' = [k \in DOMAIN blocks |-> resolveBlock(blocks[k])]
    /\ idsResolved' = TRUE
    /\ UNCHANGED <<m_functions, firstIndex, lastCall, stopEventLoopMutex>>
    /\ UNCHANGED <<vmVars, engVars, layerOrder, stopSlot, ranSince, frontBackFront,
                   loopVars, callVars>>

NextResolve == resolveIds

\* an engine with the project's targets set and compile() not yet called
InitResolve ==
    /\ VMConstructed([kind |-> "arith", n |-> 0])
    /\ EngineConstructed
    /\ EngineState(<<Stage, Sprite1>>, 0, <<>>, 250, FALSE, FALSE, -1)
    /\ idsResolved = FALSE
    /\ \E nextId, parentId, valueBlockId \in BlockRefs :
       \E primaryId, secondaryId, fieldId \in ValueRefs :
            blocks = <<LoadedBlock("b1", nextId, parentId,
                                   <<LoadedInput(valueBlockId, primaryId, secondaryId)>>,
                                   <<LoadedField(fieldId)>>),
                       LoadedBlock("b2", "", "b1", <<>>, <<>>)>>

SpecResolve == InitResolve /\ [][NextResolve]_vars

(***************************************************************************)
(* C35: after resolveIds every reference points to the entity that carries *)
(* its ID, or is null when no entity carries it: next, parent, each        *)
(* input's value block, primary value and secondary value, each field's    *)
(* value.                                                                  *)
(***************************************************************************)
\* the block that carries the ID, or null
BlockWithId(id) == IF id \in BlockIds THEN Entity("Block", id) ELSE nullptr

\* the entity that carries the ID, or null
EntityWithId(id) ==
    IF id \in BlockIds THEN Entity("Block", id)
    ELSE IF id \in VariableIds THEN Entity("Variable", id)
    ELSE IF id \in ListIds THEN Entity("List", id)
    ELSE IF id \in BroadcastIds THEN Entity("Broadcast", id)
    ELSE nullptr

C35_Original ==
    idsResolved =>
        \A k \in DOMAIN blocks :
            /\ blocks[k].next = BlockWithId(blocks[k].nextId)
            /\ blocks[k].parent = BlockWithId(blocks[k].parentId)
            /\ \A n \in DOMAIN blocks[k].inputs :
                    /\ blocks[k].inputs[n].valueBlock
                            = BlockWithId(blocks[k].inputs[n].valueBlockId)
                    /\ blocks[k].inputs[n].primaryValuePtr
                            = EntityWithId(blocks[k].inputs[n].primaryValueId)
                    /\ blocks[k].inputs[n].secondaryValuePtr
                            = EntityWithId(blocks[k].inputs[n].secondaryValueId)
            /\ \A n \in DOMAIN blocks[k].fields :
                    blocks[k].fields[n].valuePtr
                            = EntityWithId(blocks[k].fields[n].valueId)

\* every reference but the secondary value is resolved from its own ID
C35_OthersResolved ==
    idsResolved =>
        \A k \in DOMAIN blocks :
            /\ blocks[k].next = BlockWithId(blocks[k].nextId)
            /\ blocks[k].parent = BlockWithId(blocks[k].parentId)
            /\ \A n \in DOMAIN blocks[k].inputs :
                    /\ blocks[k].inputs[n].valueBlock
                            = BlockWithId(blocks[k].inputs[n].valueBlockId)
                    /\ blocks[k].inputs[n].primaryValuePtr
                            = EntityWithId(blocks[k].inputs[n].primaryValueId)
            /\ \A n \in DOMAIN blocks[k].fields :
                    blocks[k].fields[n].valuePtr
                            = EntityWithId(blocks[k].fields[n].valueId)

\* the secondary value of an input with the IDs v1 and l1 points to the variable
C35_SecondaryFromPrimary ==
    /\ idsResolved
    /\ blocks[1].inputs[1].primaryValueId = "v1"
    /\ blocks[1].inputs[1].secondaryValueId = "l1"
    /\ blocks[1].inputs[1].secondaryValuePtr = Entity("Variable", "v1")

(***************************************************************************)
(* Threads started by hats only: start(), broadcast(),                     *)
(* startBackdropScripts(), setKeyState() and initClone(), called by the    *)
(* host between two steps and by the scripts that run, and step().  No     *)
(* call of startScript().                                                  *)
(***************************************************************************)
MaxOnlyHatThreads == 3

\* a sprite with one script of each hat type
OnlyHatScripts ==
    <<[id |-> "gfS1", target |-> Sprite1, hat |-> "GreenFlag", field |-> ""],
      [id |-> "bcS1", target |-> Sprite1, hat |-> "BroadcastReceived", field |-> "foo"],
      [id |-> "bdS1", target |-> Sprite1, hat |-> "BackdropChanged", field |-> "night"],
      [id |-> "ciS1", target |-> Sprite1, hat |-> "CloneInit", field |-> ""],
      [id |-> "keyS1", target |-> Sprite1, hat |-> "KeyPressed", field |-> "a"]>>

NextOnlyHats ==
    \/ start /\ ThreadsCreated' <= MaxOnlyHatThreads
    \/ hostBroadcast("foo") /\ ThreadsCreated' <= MaxOnlyHatThreads
    \/ startBackdropScripts("night") /\ ThreadsCreated' <= MaxOnlyHatThreads
    \/ \E pressed \in BOOLEAN :
            setKeyState("a", pressed) /\ ThreadsCreated' <= MaxOnlyHatThreads
    \/ /\ nextClone <= MaxClones
       /\ hostInitClone
       /\ ThreadsCreated' <= MaxOnlyHatThreads
    \/ step
    \/ whileTest
    \/ forThread
    \/ passEnd
    \/ render
    \/ \E end \in BOOLEAN, ms \in ElapsedValues : runReturns(end, ms)
    \/ \E end \in BOOLEAN, ms \in ElapsedValues :
            /\ broadcast("foo", end, ms)
            /\ ThreadsCreated' <= MaxOnlyHatThreads
    \/ \E end \in BOOLEAN, ms \in ElapsedValues :
            /\ nextClone <= MaxClones
            /\ initClone(end, ms)
            /\ ThreadsCreated' <= MaxOnlyHatThreads

InitOnlyHats ==
    /\ VMConstructed([kind |-> "arith", n |-> 0])
    /\ EngineLoaded(OnlyHatScripts, 250, FALSE, FALSE, -1)

SpecOnlyHats == InitOnlyHats /\ [][NextOnlyHats]_vars

(***************************************************************************)
(* C36: with threads started by hats only, no two threads of the thread    *)
(* list that have not finished have the same target and the same script.   *)
(***************************************************************************)
C36_NoTwoUnfinished ==
    \A k, j \in 1..Len(threads) :
        (/\ k # j
         /\ vms[threads[k]].target = vms[threads[j]].target
         /\ vms[threads[k]].script = vms[threads[j]].script)
            => (vms[threads[k]].atEnd \/ vms[threads[j]].atEnd)

\* the key script runs for the sprite and for its clone, next to the clone's own
\* script, and the key is down
C36_Witness ==
    /\ pc = "idle"
    /\ keyMap["a"]
    /\ Len(threads) = 3
    /\ \E clone \in clones :
            {<<vms[threads[k]].script, vms[threads[k]].target>> : k \in 1..3}
                = {<<"ciS1", clone>>, <<"keyS1", clone>>, <<"keyS1", Sprite1>>}
    /\ \A k \in 1..3 : ~vms[threads[k]].atEnd

\* a broadcast sent by the thread of the broadcast script restarted that thread in
\* its slot
C36_RestartWitness ==
    /\ pc = "for"
    /\ Len(threads) = 1
    /\ vms[threads[1]].script = "bcS1"
    /\ ~vms[threads[1]].atEnd
    /\ ThreadsCreated >= 3

(***************************************************************************)
(* Threads of clones: the host makes clones, removes them with             *)
(* deinitClone(), deleteClones(), start() and stop(), and calls step(); a  *)
(* script that runs may call stop().                                       *)
(***************************************************************************)
MaxCloneThreads == 3

NextCloneThreads ==
    \/ /\ nextClone <= MaxClones
       /\ hostInitClone
       /\ ThreadsCreated' <= MaxCloneThreads
    \/ \E clone \in clones : deinitClone(clone)
    \/ deleteClones
    \/ start /\ ThreadsCreated' <= MaxCloneThreads
    \/ hostStop
    \/ step
    \/ whileTest
    \/ forThread
    \/ passEnd
    \/ render
    \/ \E end \in BOOLEAN, ms \in ElapsedValues : runReturns(end, ms)
    \/ \E ms \in ElapsedValues : stop(ms)

SpecCloneThreads == InitStop /\ [][NextCloneThreads]_vars

\* the target of the thread is a clone the engine has removed
TargetRemoved(id) == IsClone(vms[id].target) /\ vms[id].target \notin clones

(***************************************************************************)
(* C37: no thread runs whose target is a clone that was removed from the   *)
(* engine: while a thread is in run(), its target is no removed clone.     *)
(***************************************************************************)
C37_Original == pc = "running" => ~TargetRemoved(activeThread)

\* stop() called by the host does remove the threads of the clones it deletes
C37_HostStopRemoves ==
    [][hostStop => \A k \in 1..Len(threads') :
                        ~(IsClone(vms'[threads'[k]].target)
                            /\ vms'[threads'[k]].target \notin clones')]_vars

\* the thread of a clone runs in the step after the host called deinitClone() or
\* deleteClones() for the clone
C37_RunsAfterRemoval ==
    /\ pc = "running"
    /\ TargetRemoved(activeThread)
    /\ threadsToStop = <<>>
    /\ vms[activeThread].script = "ciS1"

(***************************************************************************)
(* stop() called by a script while the event loop runs a step.  The event  *)
(* loop holds m_eventLoopMutex around step(); deleteClones(), the first    *)
(* call of stop(), locks the same mutex in the same thread.  The mutex is  *)
(* declared in engine.h; it is taken to be one that its holder may lock    *)
(* again (std::recursive_mutex).                                           *)
(***************************************************************************)
MaxStopInLoopThreads == 3

\* a mutex that its holder cannot lock a second time
CanLock_NonRecursive(holder, who) == holder = "free"

\* m_eventLoopMutex.lock() by the thread who returns: the mutex is free or who
\* holds it already
CanLock(holder, who) == holder = "free" \/ holder = who

\* the script that runs in a step of the event loop calls stop(); the thread of
\* the event loop stays in deleteClones() when it cannot lock the mutex
stopInStep(ms) ==
    /\ loop = "step"
    /\ pc = "running"
    /\ ms >= elapsed
    /\ IF CanLock(eventLoopMutex, "loop")
       THEN stop(ms)
       ELSE /\ loop' = "blocked"
            /\ UNCHANGED <<untilProjectStops, m_stopEventLoop, eventLoopMutex, hostCall,
                           raced, stopCalled, stepsSinceStop>>
            /\ UNCHANGED <<vmVars, engineState, layerOrder, stopSlot, ranSince,
                           frontBackFront, callVars, restVars>>

\* the host makes clones, then calls run() or runEventLoop(); a second thread of the
\* host stops the event loop
NextStopInLoop ==
    \/ /\ loop = "none"
       /\ nextClone <= MaxClones
       /\ hostInitClone
       /\ ThreadsCreated' <= MaxStopInLoopThreads
    \/ runEventLoop
    \/ run
    \/ LoopThread
    \/ stopEventLoop
    \/ \E ms \in ElapsedValues : stopInStep(ms)

SpecStopInLoop == InitLoop /\ [][NextStopInLoop]_vars

AfterFlagTest_KeepsLock(flag, holder) ==
    IF flag THEN [loop |-> "finalize", eventLoopMutex |-> holder]
    ELSE [loop |-> "time", eventLoopMutex |-> holder]

\* if (m_stopEventLoop) { m_stopEventLoopMutex.unlock(); m_eventLoopMutex.unlock();
\* break; } m_stopEventLoopMutex.unlock();
AfterFlagTest(flag, holder) ==
    IF flag THEN [loop |-> "finalize", eventLoopMutex |-> "free"]
    ELSE [loop |-> "time", eventLoopMutex |-> holder]

\* m_stopEventLoopMutex.lock() in eventLoop()
flagLock ==
    /\ loop = "flag"
    /\ stopEventLoopMutex = "free"
    /\ stopEventLoopMutex' = "loop"
    /\ loop' = "flagLocked"
    /\ UNCHANGED <<untilProjectStops, m_stopEventLoop, eventLoopMutex, hostCall, raced,
                   stopCalled, stepsSinceStop>>
    /\ UNCHANGED <<vmVars, engineState, layerOrder, stopSlot, ranSince, frontBackFront,
                   callVars, projectVars>>

\* the test of m_stopEventLoop and the unlocks that follow it
flagTest ==
    /\ loop = "flagLocked"
    /\ stopEventLoopMutex' = "free"
    /\ loop' = AfterFlagTest(m_stopEventLoop, eventLoopMutex).loop
    /\ eventLoopMutex' = AfterFlagTest(m_stopEventLoop, eventLoopMutex).eventLoopMutex
    /\ UNCHANGED <<untilProjectStops, m_stopEventLoop, hostCall, raced, stopCalled,
                   stepsSinceStop>>
    /\ UNCHANGED <<vmVars, engineState, layerOrder, stopSlot, ranSince, frontBackFront,
                   callVars, projectVars>>

\* sleepTime = m_frameDuration - elapsedTime; m_eventLoopMutex.unlock();
timeLeft ==
    /\ loop = "time"
    /\ eventLoopMutex' = "free"
    /\ loop' = "sleep"
    /\ UNCHANGED <<untilProjectStops, m_stopEventLoop, hostCall, raced, stopCalled,
                   stepsSinceStop>>
    /\ UNCHANGED <<vmVars, engineState, layerOrder, stopSlot, ranSince, frontBackFront,
                   callVars, restVars>>

\* stopEventLoop(): m_stopEventLoopMutex.lock()
stopEventLoopLocks ==
    /\ loop \notin {"returned", "crashed"}
    /\ stopEventLoopMutex = "free"
    /\ stopEventLoopMutex' = "host"
    /\ UNCHANGED loopVars
    /\ UNCHANGED <<vmVars, engineState, layerOrder, stopSlot, ranSince, frontBackFront,
                   callVars, projectVars>>

\* stopEventLoop(): m_stopEventLoop = true; m_stopEventLoopMutex.unlock()
stopEventLoopSets ==
    /\ stopEventLoopMutex = "host"
    /\ stopEventLoopMutex' = "free"
    /\ m_stopEventLoop' = TRUE
    /\ stopCalled' = (stopCalled \/ loop # "none")
    /\ stepsSinceStop' = 0
    /\ UNCHANGED <<loop, untilProjectStops, eventLoopMutex, hostCall, raced>>
    /\ UNCHANGED <<vmVars, engineState, layerOrder, stopSlot, ranSince, frontBackFront,
                   callVars, projectVars>>

\* the steps of the thread that called run() or runEventLoop(), lock by lock
LoopThreadLocks ==
    \/ runStarts
    \/ eventLoopEnters
    \/ eventLoopSteps
    \/ InStep
    \/ stepReturns
    \/ threadsCheck
    \/ flagLock
    \/ flagTest
    \/ timeLeft
    \/ sleep
    \/ finalizes

NextLocks ==
    \/ /\ loop = "none"
       /\ setKeyState("a", TRUE)
       /\ ThreadsCreated' <= MaxLoopThreads
    \/ runEventLoop
    \/ run
    \/ LoopThreadLocks
    \/ stopEventLoopLocks
    \/ stopEventLoopSets

SpecLocks == InitLoop /\ [][NextLocks]_vars

(***************************************************************************)
(* C39: the event loop holds m_eventLoopMutex only from the lock before    *)
(* step() to the unlock after its exit checks, so not while it sleeps and  *)
(* not after either break; it holds m_stopEventLoopMutex only for the test *)
(* of the flag; and the event loop and stopEventLoop() never wait for each *)
(* other for ever: a thread that waits for a mutex waits for one whose     *)
(* holder can go on, and the event loop can always take a step until it    *)
(* has returned.                                                           *)
(***************************************************************************)
C39_Mutexes ==
    /\ eventLoopMutex = "loop" <=> loop \in {"step", "threads", "flag", "flagLocked", "time"}
    /\ stopEventLoopMutex = "loop" <=> loop = "flagLocked"
    /\ loop \in {"sleep", "finalize", "finalize2", "returned"} =>
            /\ eventLoopMutex = "free"
            /\ stopEventLoopMutex # "loop"
    /\ stopEventLoopMutex = "host" => ENABLED stopEventLoopSets
    /\ loop \notin {"none", "returned"} =>
            \/ ENABLED LoopThreadLocks
            \/ loop = "flag" /\ stopEventLoopMutex = "host"

\* the event loop waits at the lock of m_stopEventLoopMutex while stopEventLoop()
\* holds it
C39_Witness ==
    /\ loop = "flag"
    /\ eventLoopMutex = "loop"
    /\ stopEventLoopMutex = "host"

\* the event loop has returned after a call of stopEventLoop(), both mutexes free
C39_Returned ==
    /\ loop = "returned"
    /\ stopCalled
    /\ m_stopEventLoop
    /\ ~untilProjectStops
    /\ eventLoopMutex = "free"
    /\ stopEventLoopMutex = "free"

(***************************************************************************)
(* C40: whenever an instruction is dispatched, m_callTree and              *)
(* m_procedureArgTree have the same depth, except after an INIT_PROCEDURE  *)
(* and up to its CALL_PROCEDURE, where m_procedureArgTree has one frame    *)
(* more; both are empty when the script has ended.                         *)
(***************************************************************************)
\* the positions of the bytecode at which an instruction begins, from p on
RECURSIVE InstructionsFrom(_, _)
InstructionsFrom(code, p) ==
    IF p > Len(code) THEN {}
    ELSE {p} \cup InstructionsFrom(code, p + 1 + instruction_arg_count(code[p]))

\* the instruction at p follows an INIT_PROCEDURE of the same routine whose
\* CALL_PROCEDURE has not been passed
Preparing(code, p) ==
    \E q \in InstructionsFrom(code, 1) :
        /\ q < p
        /\ code[q] = OP_INIT_PROCEDURE
        /\ \A r \in InstructionsFrom(code, 1) :
                (q < r /\ r < p) => code[r] \notin {OP_CALL_PROCEDURE, OP_START}

C40_StackDepths ==
    /\ vmpc = "dispatch" =>
            Len(procedureArgTree)
                = Len(callTree) + (IF Preparing(m_bytecode, pos + 1) THEN 1 ELSE 0)
    /\ atEnd => (callTree = <<>> /\ procedureArgTree = <<>>)

\* the second call of the recursive procedure is being prepared: two calls on the
\* call stack, three argument frames
C40_Witness ==
    /\ script.kind = "proc_rec"
    /\ vmpc = "dispatch"
    /\ NextOp = OP_CALL_PROCEDURE
    /\ Len(callTree) = 2
    /\ Len(procedureArgTree) = 3

\* the script with the nested call has ended with both stacks empty, after its
\* procedures returned
C40_HaltWitness ==
    /\ script.kind = "proc_nested"
    /\ atEnd
    /\ variables[1] = Num(42)
    /\ callTree = <<>>
    /\ procedureArgTree = <<>>

=============================================================================
